---- MODULE Spec2Model ----
(***************************************************************************)
(* Model of the disaggregation calculator of                              *)
(* openquake/calculators/disaggregation.py.                               *)
(*                                                                         *)
(* Probabilities are Python floats (IEEE-754 binary64).  They are modelled *)
(* bit-exactly: a float is a record [m, e] standing for m * 2^e, with m an *)
(* arbitrary-precision natural number that is odd (or zero), and every     *)
(* arithmetic operation rounds its exact result to MantBits significant    *)
(* bits, ties to even, as the hardware does.  Exponent overflow, underflow *)
(* and subnormal numbers are not modelled: no value of the model comes     *)
(* near them.                                                              *)
(*                                                                         *)
(* The specifications: Spec is a run of the calculator from init to the    *)
(* submission of the tasks, one action per step of full_disaggregation;    *)
(* SpecAgg is the reduction of the tasks' results by agg_result; SpecProbs *)
(* is agg_probs on its own; SpecTask is compute_disagg on its own;         *)
(* SpecPost follows the submitted tasks, the reduction of what they yield  *)
(* and post_execute with the saved PMFs; SpecSwmr joins the end of         *)
(* full_disaggregation to them; SpecSave, SpecMean and SpecPaths are       *)
(* save_disagg_results on tensors drawn for the PMFs, the mean and the     *)
(* group names.                                                            *)
(***************************************************************************)
EXTENDS Integers, Sequences, FiniteSets, TLC

(***************************************************************************)
(* Arbitrary-precision naturals: little-endian sequences of digits in base *)
(* 2^15, without leading zero digits; <<>> is zero.                 *)
(***************************************************************************)
Base == 2^15

RECURSIVE BNorm(_)
BNorm(a) ==
    IF a = <<>> THEN a
    ELSE IF a[Len(a)] = 0 THEN BNorm(SubSeq(a, 1, Len(a) - 1)) ELSE a

RECURSIVE BAddC(_, _, _)
BAddC(a, b, c) ==
    IF a = <<>> /\ b = <<>> THEN (IF c = 0 THEN <<>> ELSE <<c>>)
    ELSE LET x == IF a = <<>> THEN 0 ELSE Head(a)
             y == IF b = <<>> THEN 0 ELSE Head(b)
             s == x + y + c
         IN  <<s % Base>> \o BAddC(IF a = <<>> THEN a ELSE Tail(a),
                                   IF b = <<>> THEN b ELSE Tail(b),
                                   s \div Base)

BAdd(a, b) == BAddC(a, b, 0)

\* a - b for a >= b
RECURSIVE BSubC(_, _, _)
BSubC(a, b, c) ==
    IF a = <<>> THEN <<>>
    ELSE LET y == IF b = <<>> THEN 0 ELSE Head(b)
             d == Head(a) - y - c
         IN  <<(d + Base) % Base>>
             \o BSubC(Tail(a), IF b = <<>> THEN b ELSE Tail(b),
                      IF d < 0 THEN 1 ELSE 0)

BSub(a, b) == BNorm(BSubC(a, b, 0))

RECURSIVE BMulD(_, _, _)
BMulD(a, d, c) ==
    IF a = <<>> THEN (IF c = 0 THEN <<>> ELSE <<c>>)
    ELSE LET p == Head(a) * d + c
         IN  <<p % Base>> \o BMulD(Tail(a), d, p \div Base)

RECURSIVE BMulFrom(_, _, _, _)
\* acc * Base^i + a * (the digits i..1 of b), acc being normalised
BMulFrom(a, b, i, acc) ==
    IF i = 0 THEN acc
    ELSE IF acc = <<>> THEN BMulFrom(a, b, i - 1, BNorm(BMulD(a, b[i], 0)))
    ELSE BMulFrom(a, b, i - 1, BNorm(BAdd(BMulD(a, b[i], 0), <<0>> \o acc)))

BMul(a, b) == IF a = <<>> THEN <<>> ELSE BMulFrom(a, b, Len(b), <<>>)

\* -1, 0, 1 as a < b, a = b, a > b
RECURSIVE BCmp(_, _)
BCmp(a, b) ==
    IF Len(a) # Len(b) THEN (IF Len(a) < Len(b) THEN -1 ELSE 1)
    ELSE IF a = <<>> THEN 0
    ELSE IF a[Len(a)] # b[Len(b)]
         THEN (IF a[Len(a)] < b[Len(b)] THEN -1 ELSE 1)
    ELSE BCmp(SubSeq(a, 1, Len(a) - 1), SubSeq(b, 1, Len(b) - 1))

DigitLen(d) == CHOOSE k \in 0..15 : d < 2^k /\ (k = 0 \/ d >= 2^(k - 1))

BBitLen(a) == IF a = <<>> THEN 0 ELSE 15 * (Len(a) - 1) + DigitLen(a[Len(a)])

\* floor(a / 2^n)
BShr(a, n) ==
    LET q == n \div 15
        r == n % 15
        t == IF q >= Len(a) THEN <<>> ELSE SubSeq(a, q + 1, Len(a))
    IN  IF r = 0 THEN t
        ELSE BNorm([i \in 1..Len(t) |->
                      (t[i] \div 2^r)
                      + (IF i < Len(t) THEN (t[i + 1] % 2^r) * 2^(15 - r)
                         ELSE 0)])

\* a * 2^n
BShl(a, n) ==
    IF a = <<>> THEN a
    ELSE [i \in 1..(n \div 15) |-> 0] \o BMulD(a, 2^(n % 15), 0)

BBit(a, i) ==
    LET k == i \div 15 + 1
    IN  IF k > Len(a) THEN 0 ELSE (a[k] \div 2^(i % 15)) % 2

\* the n lowest bits of a are all zero
BLowZero(a, n) == BShl(BShr(a, n), n) = a

\* number of trailing zero bits of a # 0
RECURSIVE BTz(_)
BTz(a) ==
    IF Head(a) = 0 THEN 15 + BTz(Tail(a))
    ELSE CHOOSE k \in 0..14 : Head(a) % 2^k = 0 /\ (Head(a) \div 2^k) % 2 = 1

(***************************************************************************)
(* Floats.                                                                 *)
(***************************************************************************)
MantBits == 53

FZero == [m |-> <<>>, e |-> 0]
FOne == [m |-> <<1>>, e |-> 0]

\* the canonical record of M * 2^e
FNorm(M, e) ==
    IF M = <<>> THEN FZero
    ELSE LET z == BTz(M) IN [m |-> BShr(M, z), e |-> e + z]

\* M * 2^e rounded to MantBits significant bits, ties to even
FRound(M, e) ==
    LET L == BBitLen(M)
    IN  IF L <= MantBits THEN FNorm(M, e)
        ELSE LET k == L - MantBits
                 q == BShr(M, k)
                 up == BBit(M, k - 1) = 1
                       /\ (~BLowZero(M, k - 1) \/ BBit(q, 0) = 1)
             IN  FNorm(IF up THEN BAdd(q, <<1>>) ELSE q, e + k)

FMul(x, y) ==
    IF x = FZero \/ y = FZero THEN FZero
    ELSE FRound(BMul(x.m, y.m), x.e + y.e)

FMinE(x, y) == IF x.e < y.e THEN x.e ELSE y.e

\* -1, 0, 1 as x < y, x = y, x > y
FCmp(x, y) ==
    IF x = y THEN 0
    ELSE LET e == FMinE(x, y)
         IN  BCmp(BShl(x.m, x.e - e), BShl(y.m, y.e - e))

FLe(x, y) == FCmp(x, y) <= 0

FAdd(x, y) ==
    IF x = FZero THEN y
    ELSE IF y = FZero THEN x
    ELSE LET e == FMinE(x, y)
         IN  FRound(BAdd(BShl(x.m, x.e - e), BShl(y.m, y.e - e)), e)

\* x - y for x >= y
FSub(x, y) ==
    IF y = FZero THEN x
    ELSE IF x = y THEN FZero
    ELSE LET e == FMinE(x, y)
         IN  FRound(BSub(BShl(x.m, x.e - e), BShl(y.m, y.e - e)), e)

\* |x - y|, exact when it needs no rounding
FDist(x, y) == IF FLe(y, x) THEN FSub(x, y) ELSE FSub(y, x)

\* n for 0 <= n < Base
BFromInt(n) == IF n = 0 THEN <<>> ELSE <<n>>

\* quotient and remainder of a by a digit d, 0 < d < Base
RECURSIVE BDivD(_, _)
BDivD(a, d) ==
    IF a = <<>> THEN [q |-> <<>>, r |-> 0]
    ELSE LET hi == BDivD(Tail(a), d)
             cur == hi.r * Base + Head(a)
         IN  [q |-> <<cur \div d>> \o hi.q, r |-> cur % d]

\* The float nearest to n/d (the value of a decimal literal such as 0.1 =
\* Dec(1, 10)), for 0 <= n < Base, 0 < d < Base, n/d >= 2^-20: the quotient
\* is computed to 75 fractional bits with a sticky bit, then rounded once.
Dec(n, d) ==
    LET dv == BDivD(BShl(BFromInt(n), 75), d)
        M == BAdd(BShl(BNorm(dv.q), 1), IF dv.r = 0 THEN <<>> ELSE <<1>>)
    IN  FRound(M, -76)

RECURSIVE QDigit(_, _, _, _)
\* the largest digit d >= acc, differing from acc in the bits below k only,
\* with d * b <= r, found three bits at a time (k is a multiple of 3)
QDigit(r, b, k, acc) ==
    IF k = 0 THEN acc
    ELSE LET fit == {t \in 1..7 : BCmp(BMulD(b, acc + t * 2^(k - 3), 0), r) <= 0}
         IN  IF fit = {} THEN QDigit(r, b, k - 3, acc)
             ELSE QDigit(r, b, k - 3, acc + Cardinality(fit) * 2^(k - 3))

RECURSIVE BDivFrom(_, _, _, _, _)
\* long division of a by b # 0, from the highest digit down: q and r are the
\* quotient and the remainder of the digits above i
BDivFrom(a, b, i, q, r) ==
    IF i = 0 THEN [q |-> BNorm(q), r |-> r]
    ELSE LET r2 == BNorm(<<a[i]>> \o r)
             d == QDigit(r2, b, 15, 0)
         IN  IF d = 0 THEN BDivFrom(a, b, i - 1, <<0>> \o q, r2)
             ELSE BDivFrom(a, b, i - 1, <<d>> \o q,
                           BSub(r2, BNorm(BMulD(b, d, 0))))

\* x / y for y # 0: the quotient of the mantissas is computed to at least 55
\* bits with a sticky bit, then rounded once
FDiv(x, y) ==
    IF x = FZero THEN FZero
    ELSE IF y = FOne THEN x
    ELSE LET k == 56 + BBitLen(y.m) - BBitLen(x.m)
             num == BShl(x.m, k)
             dv == BDivFrom(num, y.m, Len(num), <<>>, <<>>)
         IN  IF dv.r = <<>> THEN FRound(dv.q, x.e - y.e - k)
             ELSE FRound(BAdd(BShl(dv.q, 1), <<1>>), x.e - y.e - k - 1)

(***************************************************************************)
(* Exact (unrounded) arithmetic on the same records, used to state what a  *)
(* float result approximates.                                              *)
(***************************************************************************)
XMul(x, y) == FNorm(BMul(x.m, y.m), x.e + y.e)

\* |x - y|
XDist(x, y) ==
    LET e == FMinE(x, y)
        X == BShl(x.m, x.e - e)
        Y == BShl(y.m, y.e - e)
    IN  FNorm(IF BCmp(X, Y) >= 0 THEN BSub(X, Y) ELSE BSub(Y, X), e)

\* n * 2^e
Pow2Times(n, e) == FNorm(BFromInt(n), e)

(***************************************************************************)
(* numpy arithmetic on scalars and arrays.  A scalar is a float; an array  *)
(* is a record [arr |-> f], f giving the float of each modelled cell of    *)
(* the matrix.  A scalar operand is broadcast over an array operand.       *)
(***************************************************************************)
IsScalar(v) == "m" \in DOMAIN v

Arr(f) == [arr |-> f]

\* 1. - v
ASub1(v) ==
    IF IsScalar(v) THEN FSub(FOne, v)
    ELSE Arr([i \in DOMAIN v.arr |-> FSub(FOne, v.arr[i])])

\* a * b
AMul(a, b) ==
    IF IsScalar(a) /\ IsScalar(b) THEN FMul(a, b)
    ELSE IF IsScalar(a) THEN Arr([i \in DOMAIN b.arr |-> FMul(a, b.arr[i])])
    ELSE IF IsScalar(b) THEN Arr([i \in DOMAIN a.arr |-> FMul(a.arr[i], b)])
    ELSE Arr([i \in DOMAIN a.arr |-> FMul(a.arr[i], b.arr[i])])

\* matrix.any()
AnyNonZero(v) ==
    IF IsScalar(v) THEN v # FZero ELSE \E i \in DOMAIN v.arr : v.arr[i] # FZero

(***************************************************************************)
(* agg_probs: probs is the non-empty sequence of its arguments, scalars or *)
(* arrays with values in [0, 1].                                           *)
(***************************************************************************)
RECURSIVE agg_probs_loop(_, _)
agg_probs_loop(acc_, probs) ==
    IF probs = <<>> THEN acc_
    ELSE agg_probs_loop(AMul(acc_, ASub1(Head(probs))), Tail(probs))

\* a slip: the later arguments are multiplied in without being complemented
RECURSIVE agg_probs_nocompl_loop(_, _)
agg_probs_nocompl_loop(acc_, probs) ==
    IF probs = <<>> THEN acc_
    ELSE agg_probs_nocompl_loop(AMul(acc_, Head(probs)), Tail(probs))

agg_probs_nocompl(probs) ==
    ASub1(agg_probs_nocompl_loop(ASub1(probs[1]), Tail(probs)))

agg_probs(probs) == ASub1(agg_probs_loop(ASub1(probs[1]), Tail(probs)))

(***************************************************************************)
(* agg_result(acc, result).  A result is what compute_disagg yields:       *)
(* [trti, magi, imti, sites], sites being the remaining items sid ->       *)
(* matrix.  acc maps <<imti, sid>> to a dictionary <<trti, magi>> ->       *)
(* matrix; it is an AccumDict(accum={}), so reading a missing <<imti,      *)
(* sid>> yields an empty dictionary.  The int 0 that stands for a missing  *)
(* prior value is the scalar FZero.                                        *)
(***************************************************************************)
EmptyDict == [k \in {} |-> 0]

AccGet(acc_, ms) == IF ms \in DOMAIN acc_ THEN acc_[ms] ELSE EmptyDict

Before(dic, tm) == IF tm \in DOMAIN dic THEN dic[tm] ELSE FZero

\* a slip: a missing prior value taken as 1 instead of 0
BeforeOne(dic, tm) == IF tm \in DOMAIN dic THEN dic[tm] ELSE FOne

Touched(result) == {<<result.imti, sid>> : sid \in DOMAIN result.sites}

\* a slip: the new matrix replaces the stored one
agg_result_overwrite(acc_, result) ==
    [ms \in DOMAIN acc_ \cup Touched(result) |->
        IF ms \in Touched(result)
        THEN LET dic == AccGet(acc_, ms)
                 tm == <<result.trti, result.magi>>
             IN  [k \in DOMAIN dic \cup {tm} |->
                    IF k = tm THEN result.sites[ms[2]] ELSE dic[k]]
        ELSE acc_[ms]]

\* a slip: a key already present keeps its stored matrix (setdefault)
agg_result_setdefault(acc_, result) ==
    [ms \in DOMAIN acc_ \cup Touched(result) |->
        IF ms \in Touched(result)
        THEN LET dic == AccGet(acc_, ms)
                 tm == <<result.trti, result.magi>>
             IN  [k \in DOMAIN dic \cup {tm} |->
                    IF k = tm /\ tm \notin DOMAIN dic
                    THEN agg_probs(<<FZero, result.sites[ms[2]]>>)
                    ELSE dic[k]]
        ELSE acc_[ms]]

\* a slip: a missing prior value defaults to 1
agg_result_default_one(acc_, result) ==
    [ms \in DOMAIN acc_ \cup Touched(result) |->
        IF ms \in Touched(result)
        THEN LET dic == AccGet(acc_, ms)
                 tm == <<result.trti, result.magi>>
             IN  [k \in DOMAIN dic \cup {tm} |->
                    IF k = tm
                    THEN agg_probs(<<BeforeOne(dic, tm), result.sites[ms[2]]>>)
                    ELSE dic[k]]
        ELSE acc_[ms]]

\* a slip: the dictionary of the site is started again by every result
agg_result_fresh_dict(acc_, result) ==
    [ms \in DOMAIN acc_ \cup Touched(result) |->
        IF ms \in Touched(result)
        THEN LET dic == AccGet(acc_, ms)
                 tm == <<result.trti, result.magi>>
             IN  [k \in {tm} |->
                    agg_probs(<<Before(dic, tm), result.sites[ms[2]]>>)]
        ELSE acc_[ms]]

agg_result(acc_, result) ==
    [ms \in DOMAIN acc_ \cup Touched(result) |->
        IF ms \in Touched(result)
        THEN LET dic == AccGet(acc_, ms)
                 tm == <<result.trti, result.magi>>
             IN  [k \in DOMAIN dic \cup {tm} |->
                    IF k = tm
                    THEN agg_probs(<<Before(dic, tm), result.sites[ms[2]]>>)
                    ELSE dic[k]]
        ELSE acc_[ms]]

(***************************************************************************)
(* State.                                                                  *)
(***************************************************************************)
VARIABLES
    pc,        \* where the run is
    N,         \* self.N, the number of sites; the site ids are 0..N-1
    rd,        \* what the last step read (configuration, store) and its locals
    calc,      \* the attributes the calculator has set on itself so far
    datastore, \* the names of the datasets written by this calculator
    swmr,      \* whether the store is in single-writer/multiple-reader mode
    err,       \* the exception that ended the run, NoErr while there is none
    log,       \* the phases the run has gone through
    tasks,     \* allargs as submitted to the Starmap, <<>> before that
    results,   \* tid -> the partial result that task tid yields
    queue,     \* tids of the results yielded and not yet aggregated
    received,  \* tids of the results already passed to agg_result
    acc,       \* the accumulator of smap.reduce
    args,      \* arguments of a direct call of agg_probs
    out,       \* what that call returned
    tom,       \* RuptureContext.temporal_occurrence_model, a class attribute
    tstate,    \* tid -> how far the task has got and what it has observed
    keyorder,  \* <<imti, sid>> -> the keys of its dictionary as inserted
    disagg,    \* the datasets written under disagg/, with their attributes
    warnings   \* the warnings logged while saving

runVars == <<N, rd, calc, datastore, swmr, err, log, tasks>>

postVars == <<tom, tstate, keyorder, disagg, warnings>>

vars == <<pc, N, rd, calc, datastore, swmr, err, log, tasks,
          results, queue, received, acc, args, out,
          tom, tstate, keyorder, disagg, warnings>>

NoErr == [type |-> "", text |-> "", vals |-> <<>>]

Raise(type, text, vals) == [type |-> type, text |-> text, vals |-> vals]

\* the calculator as constructed, before init
Fresh ==
    /\ rd = EmptyDict
    /\ calc = EmptyDict
    /\ datastore = {}
    /\ swmr = FALSE
    /\ err = NoErr
    /\ log = {}
    /\ tasks = <<>>

\* no task has run and nothing has been saved
NoTom == [set |-> FALSE]

PostFresh ==
    /\ tom = NoTom
    /\ tstate = <<>>
    /\ keyorder = EmptyDict
    /\ disagg = EmptyDict
    /\ warnings = {}

(***************************************************************************)
(* Bounds and input sets.                                                  *)
(***************************************************************************)
MaxResults == 3

\* the modelled cells of a (flattened) 6-D matrix; every other cell is 0
Cells == {1, 2}

\* <<trti, magi, imti, sid>>
TagChoices == <<<<0, 0, 0, 0>>, <<1, 0, 0, 0>>, <<0, 0, 0, 1>>>>

\* the matrices a task may yield: each has a non-zero cell
MatChoices ==
    <<Arr(<<Dec(1, 10), FZero>>), Arr(<<Dec(2, 10), Dec(5, 10)>>),
      Arr(<<Dec(5, 10), Dec(5, 10)>>), Arr(<<FZero, Dec(1, 10)>>)>>

\* what compute_disagg yields for one site
MkResult(tag, sid, matrix) ==
    [trti |-> tag[1], magi |-> tag[2], imti |-> tag[3], sites |-> (sid :> matrix)]

\* the choices of a partial result: <<tag index, matrix index>>
PickSet == (1..Len(TagChoices)) \X (1..Len(MatChoices))

PickRank(k) == k[1] * 100 + k[2]

PickResult(k) ==
    MkResult(TagChoices[k[1]], TagChoices[k[1]][4], MatChoices[k[2]])

\* n partial results, the tasks numbered so that their choices are sorted
\* (every arrival order is explored, so the numbering loses nothing)
Picks(n) ==
    {f \in [1..n -> PickSet] :
        \A i \in 1..n, j \in 1..n : i < j => PickRank(f[i]) <= PickRank(f[j])}

(***************************************************************************)
(* The reduction smap.reduce(self.agg_result, AccumDict(accum={})) on its  *)
(* own: the partial results of the tasks arrive in any order.              *)
(***************************************************************************)
InitAgg ==
    /\ pc = "reduce"
    /\ \E n \in 1..MaxResults : \E f \in Picks(n) :
          results = [tid \in 1..n |-> PickResult(f[tid])]
    /\ queue = DOMAIN results
    /\ received = {}
    /\ acc = EmptyDict
    /\ args = <<>>
    /\ out = <<>>
    /\ N = 2
    /\ Fresh
    /\ PostFresh

AggResult ==
    /\ pc = "reduce"
    /\ \E tid \in queue :
          /\ acc' = agg_result(acc, results[tid])
          /\ queue' = queue \ {tid}
          /\ received' = received \cup {tid}
    /\ UNCHANGED <<pc, results, args, out>>
    /\ UNCHANGED runVars
    /\ UNCHANGED postVars

NextAgg == AggResult

SpecAgg == InitAgg /\ [][NextAgg]_vars

(***************************************************************************)
(* Direct calls of agg_probs on three probabilities.                       *)
(***************************************************************************)
ArgVals == {FZero, Dec(1, 10), Dec(2, 10), Dec(3, 10), Dec(5, 10), FOne}

InitProbs ==
    /\ pc = "call"
    /\ args \in ArgVals \X ArgVals \X ArgVals
    /\ out = <<>>
    /\ results = <<>>
    /\ queue = {}
    /\ received = {}
    /\ acc = EmptyDict
    /\ N = 1
    /\ Fresh
    /\ PostFresh

CallAggProbs ==
    /\ pc = "call"
    /\ pc' = "returned"
    /\ out' = [ab |-> agg_probs(<<args[1], args[2]>>),
               ba |-> agg_probs(<<args[2], args[1]>>),
               ab_c |-> agg_probs(<<agg_probs(<<args[1], args[2]>>), args[3]>>),
               a_bc |-> agg_probs(<<args[1], agg_probs(<<args[2], args[3]>>)>>),
               abc |-> agg_probs(<<args[1], args[2], args[3]>>)]
    /\ UNCHANGED <<results, queue, received, acc, args>>
    /\ UNCHANGED runVars
    /\ UNCHANGED postVars

NextProbs == CallAggProbs

SpecProbs == InitProbs /\ [][NextProbs]_vars

(***************************************************************************)
(* What the accumulator stands for.                                        *)
(***************************************************************************)
\* the received partial results with tag tm = <<trti, magi>> for ms = <<imti, sid>>
Contrib(ms, tm) ==
    {tid \in received :
        /\ results[tid].imti = ms[1]
        /\ ms[2] \in DOMAIN results[tid].sites
        /\ <<results[tid].trti, results[tid].magi>> = tm}

\* PRODUCT(1 - p_i) in exact arithmetic, at cell c of site sid, over the results S
RECURSIVE XProd(_, _, _)
XProd(S, sid, c) ==
    IF S = {} THEN FOne
    ELSE LET t == CHOOSE t \in S : TRUE
         IN  XMul(XDist(FOne, results[t].sites[sid].arr[c]), XProd(S \ {t}, sid, c))

\* 1 - PRODUCT(1 - p_i) in exact arithmetic
XAgg(S, sid, c) == XDist(FOne, XProd(S, sid, c))

\* the rounding error that combining n probabilities may accumulate:
\* four roundings of at most 2^-54 per combination
Tol(n) == Pow2Times(n, -52)

\* the keys of the accumulator are those of the results received, no more
KeysAsReceived ==
    /\ \A tid \in received : \A sid \in DOMAIN results[tid].sites :
          /\ <<results[tid].imti, sid>> \in DOMAIN acc
          /\ <<results[tid].trti, results[tid].magi>>
                \in DOMAIN acc[<<results[tid].imti, sid>>]
    /\ \A ms \in DOMAIN acc : \A tm \in DOMAIN acc[ms] : Contrib(ms, tm) # {}

\* the value a received result has at cell c of the key (ms, tm)
Given(tid, ms, c) == results[tid].sites[ms[2]].arr[c]

\* the accumulator built by taking the results in the order of their numbers
RECURSIVE FoldUpTo(_)
FoldUpTo(n) == IF n = 0 THEN EmptyDict ELSE agg_result(FoldUpTo(n - 1), results[n])

(***************************************************************************)
(* C1 as stated: every accumulated cell equals 1 - PRODUCT(1 - p_i) over   *)
(* the partial results received for its key.  The code computes the        *)
(* combination in floating point, so this fails as soon as a rounding      *)
(* occurs: a single partial result 0.1 is stored as 1 - (1 - 0.1) =        *)
(* 0.09999999999999998.                                                    *)
(***************************************************************************)
C1_ExactProduct ==
    pc = "reduce" =>
        /\ KeysAsReceived
        /\ \A ms \in DOMAIN acc : \A tm \in DOMAIN acc[ms] : \A c \in Cells :
              acc[ms][tm].arr[c] = XAgg(Contrib(ms, tm), ms[2], c)

(***************************************************************************)
(* C1 amended: after any sequence of agg_result calls the accumulator has  *)
(* exactly the keys of the partial results received, and every cell is     *)
(* the combination of all n values received for it (a later result is      *)
(* combined with the stored value, never overwrites it): it differs from   *)
(* 1 - PRODUCT(1 - p_i) by the accumulated rounding only, at most          *)
(* n * 2^-52, and two partial results of 0.5 give exactly 0.75.            *)
(***************************************************************************)
C1_CombinedUpToRounding ==
    pc = "reduce" =>
        /\ KeysAsReceived
        /\ \A ms \in DOMAIN acc : \A tm \in DOMAIN acc[ms] : \A c \in Cells :
              LET S == Contrib(ms, tm)
              IN  /\ FLe(XDist(acc[ms][tm].arr[c], XAgg(S, ms[2], c)),
                         Tol(Cardinality(S)))
                  /\ (Cardinality(S) = 2
                      /\ \A t \in S : Given(t, ms, c) = Dec(5, 10))
                        => acc[ms][tm].arr[c] = Dec(75, 100)

\* two partial results of 0.5 for the same key and cell have been combined
C1_Witness ==
    /\ pc = "reduce"
    /\ \E ms \in DOMAIN acc : \E tm \in DOMAIN acc[ms] : \E c \in Cells :
          /\ Cardinality(Contrib(ms, tm)) = 2
          /\ \A t \in Contrib(ms, tm) : Given(t, ms, c) = Dec(5, 10)
          /\ acc[ms][tm].arr[c] = Dec(75, 100)

(***************************************************************************)
(* C2 as stated: when all partial results have been aggregated, the        *)
(* accumulator is the same whatever the arrival order was, i.e. equal to   *)
(* the one built in the order of the task numbers.  Floating-point         *)
(* multiplication is not associative, so the last bits depend on the       *)
(* order: 0.1, 0.2, 0.5 give 0.64 or 0.6399999999999999.                   *)
(***************************************************************************)
C2_SameFinalAccumulator ==
    (pc = "reduce" /\ queue = {}) => acc = FoldUpTo(Len(results))

(***************************************************************************)
(* C2 amended: every arrival order yields the same keys, and matrices that *)
(* agree up to rounding: each cell that combines n partial results differs *)
(* between two orders by at most n * 2^-51 (each is within n * 2^-52 of    *)
(* the exact value).                                                       *)
(***************************************************************************)
C2_SameKeysCloseMatrices ==
    (pc = "reduce" /\ queue = {}) =>
        LET ref == FoldUpTo(Len(results))
        IN  /\ DOMAIN acc = DOMAIN ref
            /\ \A ms \in DOMAIN acc :
                  /\ DOMAIN acc[ms] = DOMAIN ref[ms]
                  /\ \A tm \in DOMAIN acc[ms] : \A c \in Cells :
                        FLe(XDist(acc[ms][tm].arr[c], ref[ms][tm].arr[c]),
                            Tol(2 * Cardinality(Contrib(ms, tm))))

\* a finished reduction in which three partial results met in one cell, in an
\* order other than that of the task numbers
C2_Witness ==
    /\ pc = "reduce"
    /\ queue = {}
    /\ \E ms \in DOMAIN acc : \E tm \in DOMAIN acc[ms] : \E c \in Cells :
          /\ Cardinality(Contrib(ms, tm)) = 3
          /\ \A t \in Contrib(ms, tm) : Given(t, ms, c) # FZero
          /\ acc[ms][tm].arr[c] # FoldUpTo(Len(results))[ms][tm].arr[c]

(***************************************************************************)
(* C3 as stated: agg_probs is commutative and associative, with equality.  *)
(* Associativity fails in the last bit: for 0.1, 0.1, 0.3 the nested and   *)
(* the three-argument calls give different floats.                         *)
(***************************************************************************)
C3_CommutativeAssociative ==
    pc = "returned" =>
        /\ out.ab = out.ba
        /\ out.ab_c = out.a_bc
        /\ out.a_bc = out.abc

\* 1 - (1 - a)(1 - b)(1 - c) in exact arithmetic
XAgg3(a, b, c) == XDist(FOne, XMul(XMul(XDist(FOne, a), XDist(FOne, b)), XDist(FOne, c)))

(***************************************************************************)
(* C3 amended: agg_probs is commutative with equality, and associative up  *)
(* to rounding: agg_probs(agg_probs(a, b), c), agg_probs(a, agg_probs(b,   *)
(* c)) and agg_probs(a, b, c) are each within 3 * 2^-52 of                 *)
(* 1 - (1-a)(1-b)(1-c).                                                    *)
(***************************************************************************)
C3_CommutativeAssociativeUpToRounding ==
    pc = "returned" =>
        LET x == XAgg3(args[1], args[2], args[3])
        IN  /\ out.ab = out.ba
            /\ FLe(XDist(out.ab_c, x), Tol(3))
            /\ FLe(XDist(out.a_bc, x), Tol(3))
            /\ FLe(XDist(out.abc, x), Tol(3))

\* a call on three probabilities strictly between 0 and 1, not all equal
C3_Witness ==
    /\ pc = "returned"
    /\ \A i \in 1..3 : args[i] # FZero /\ args[i] # FOne
    /\ args[1] # args[2]
    /\ out.ab = out.ba
    /\ out.ab_c # out.abc

(***************************************************************************)
(* C4 as stated: the first partial result received for a key is stored     *)
(* with exactly its own values (agg_probs(0, p) = p).  agg_probs(0, p) is  *)
(* computed as 1 - (1 - p), and 1 - p is rounded: 0.1 is stored as         *)
(* 0.09999999999999998.                                                    *)
(***************************************************************************)
C4_FirstStoredExactly ==
    pc = "reduce" =>
        \A ms \in DOMAIN acc : \A tm \in DOMAIN acc[ms] :
            \A tid \in Contrib(ms, tm) :
                Contrib(ms, tm) = {tid} => acc[ms][tm] = results[tid].sites[ms[2]]

(***************************************************************************)
(* C4 amended: agg_result treats an absent prior value as 0, so the first  *)
(* partial result p received for a key is stored as agg_probs(0, p) =      *)
(* 1 - (1 - p): that is p itself whenever p = 0 or p >= 0.5 (1 - p is then *)
(* exact), and otherwise differs from p by at most 2^-54.                  *)
(***************************************************************************)
C4_FirstStoredUpToRounding ==
    pc = "reduce" =>
        \A ms \in DOMAIN acc : \A tm \in DOMAIN acc[ms] :
            \A tid \in Contrib(ms, tm) :
                Contrib(ms, tm) = {tid} =>
                    \A c \in Cells :
                        LET p == Given(tid, ms, c)
                        IN  /\ FLe(XDist(acc[ms][tm].arr[c], p), Pow2Times(1, -54))
                            /\ (p = FZero \/ FLe(Dec(5, 10), p))
                                  => acc[ms][tm].arr[c] = p

\* a key holds its first partial result only, with a cell stored exactly (0.5)
\* and, under another key, one that was rounded (0.1)
C4_Witness ==
    /\ pc = "reduce"
    /\ \E ms \in DOMAIN acc : \E tm \in DOMAIN acc[ms] : \E tid \in received :
          /\ Contrib(ms, tm) = {tid}
          /\ \E c \in Cells : Given(tid, ms, c) = Dec(5, 10)
                              /\ acc[ms][tm].arr[c] = Dec(5, 10)
    /\ \E ms \in DOMAIN acc : \E tm \in DOMAIN acc[ms] : \E tid \in received :
          /\ Contrib(ms, tm) = {tid}
          /\ \E c \in Cells : Given(tid, ms, c) = Dec(1, 10)
                              /\ acc[ms][tm].arr[c] # Dec(1, 10)

(***************************************************************************)
(* The run of the calculator: init, then execute = full_disaggregation,    *)
(* taken statement group by statement group.  What a step reads from the   *)
(* configuration (oq) or from the store for the first time is chosen at    *)
(* that step; rd keeps what the last step read, calc what the calculator   *)
(* holds on to.  The model follows up to MaxSites sites.                   *)
(***************************************************************************)
SiteLimit == 32768

MaxSites == 2

Sids == 0..(N - 1)

\* the site counts of a run
NChoices == (1..MaxSites) \cup {SiteLimit - 1, SiteLimit}

\* oq.max_sites_disagg
FewChoices == {1, 40000}

\* a slip: the limit itself is let through
init_error_off_by_one(n, few) ==
    IF n > SiteLimit
    THEN Raise("ValueError", "You can disaggregate at max 32,768 sites", <<>>)
    ELSE IF n > few
    THEN Raise("ValueError", "The number of sites is to disaggregate is %d, but you have max_sites_disagg=%d",
               <<n, few>>)
    ELSE NoErr

\* the exception init raises for n sites, NoErr when it raises none
init_error(n, few) ==
    IF n >= SiteLimit
    THEN Raise("ValueError", "You can disaggregate at max 32,768 sites", <<>>)
    ELSE IF n > few
    THEN Raise("ValueError", "The number of sites is to disaggregate is %d, but you have max_sites_disagg=%d",
               <<n, few>>)
    ELSE NoErr

Init ==
    /\ pc = "new"
    /\ N \in NChoices
    /\ Fresh
    /\ PostFresh
    /\ results = <<>>
    /\ queue = {}
    /\ received = {}
    /\ acc = EmptyDict
    /\ args = <<>>
    /\ out = <<>>

redVars == <<results, queue, received, acc, args, out, postVars>>

\* the run ends with exception e
Fail(e) ==
    /\ pc' = "failed"
    /\ err' = e

\* DisaggregationCalculator.init
init ==
    /\ pc = "new"
    /\ \E few \in FewChoices :
          /\ rd' = [max_sites_disagg |-> few]
          /\ IF init_error(N, few) # NoErr
             THEN Fail(init_error(N, few)) /\ log' = log
             ELSE /\ pc' = "init_done"
                  /\ err' = err
                  /\ log' = log \cup {"super_init"}
    /\ UNCHANGED <<N, calc, datastore, swmr, tasks>>
    /\ UNCHANGED redVars

(***************************************************************************)
(* Bin edges.  An array of edges is [first, step, bins]: the bins + 1      *)
(* values first + i * step.  Magnitudes are in tenths.                     *)
(***************************************************************************)
Edges(first, step, bins) == [first |-> first, step |-> step, bins |-> bins]

\* len(edges)
LenEdges(e) == e.bins + 1

\* the numbers of bins the edges may have
ShapeChoices ==
    {[mag |-> 1, dist |-> 1, lon |-> 1, lat |-> 1, eps |-> 1, trt |-> 1],
     [mag |-> 2, dist |-> 1, lon |-> 1, lat |-> 1, eps |-> 2, trt |-> 2],
     [mag |-> 100, dist |-> 100, lon |-> 10, lat |-> 10, eps |-> 1, trt |-> 1],
     [mag |-> 101, dist |-> 9901, lon |-> 1, lat |-> 1, eps |-> 1, trt |-> 1],
     [mag |-> 100, dist |-> 100, lon |-> 10, lat |-> 10, eps |-> 1, trt |-> 2]}

\* disagg.get_edges_shapedic: the five edge arrays, longitudes and latitudes
\* per site, all sites with the same numbers of bins
get_edges(shape, sids) ==
    [mags |-> Edges(50, 10, shape.mag),
     dists |-> Edges(0, 10, shape.dist),
     lons |-> [sid \in sids |-> Edges(10 * sid, 1, shape.lon)],
     lats |-> [sid \in sids |-> Edges(20 * sid, 1, shape.lat)],
     eps |-> Edges(0, 1, shape.eps)]

\* full_disaggregation, lines 268-272
GetEdges ==
    /\ pc = "init_done"
    /\ N <= MaxSites
    /\ \E shape \in ShapeChoices :
          /\ calc' = calc @@ [bin_edges |-> get_edges(shape, Sids),
                              trts |-> [t \in 1..shape.trt |-> t - 1]]
          /\ rd' = [source_mags |-> shape.mag]
    /\ pc' = "edges"
    /\ log' = log \cup {"edges"}
    /\ UNCHANGED <<N, datastore, swmr, err, tasks>>
    /\ UNCHANGED redVars

\* a slip: the stored flag is not looked at
atomic_error_csm_only(csm, info_atomic) ==
    IF csm = "atomic"
    THEN Raise("NotImplementedError", "Atomic groups are not supported yet", <<>>)
    ELSE NoErr

\* whether lines 273-280 raise: csm is "absent" when the calculator has no
\* csm attribute, else tells whether one of its source groups is atomic
atomic_error(csm, info_atomic) ==
    IF csm # "absent"
    THEN (IF csm = "atomic"
          THEN Raise("NotImplementedError", "Atomic groups are not supported yet", <<>>)
          ELSE NoErr)
    ELSE IF info_atomic
    THEN Raise("NotImplementedError", "Atomic groups are not supported yet", <<>>)
    ELSE NoErr

\* full_disaggregation, lines 273-280
CheckAtomic ==
    /\ pc = "edges"
    /\ \E csm \in {"absent", "plain", "atomic"}, info_atomic \in BOOLEAN :
          /\ rd' = [csm |-> csm, info_atomic |-> info_atomic]
          /\ IF atomic_error(csm, info_atomic) # NoErr
             THEN Fail(atomic_error(csm, info_atomic))
             ELSE pc' = "atomic_ok" /\ err' = err
    /\ UNCHANGED <<N, calc, datastore, swmr, log, tasks>>
    /\ UNCHANGED redVars

(***************************************************************************)
(* Realizations, lines 282-309.                                            *)
(***************************************************************************)
\* self.R, the number of realizations of the logic tree
RChoices == {1, 2}

\* oq.rlz_index (given = FALSE stands for None) and oq.num_rlzs_disagg
RlzConfigChoices ==
    {[given |-> FALSE, rlz_index |-> <<>>, num_rlzs_disagg |-> n] : n \in 1..3}
    \cup {[given |-> TRUE, rlz_index |-> [i \in 1..n |-> i - 1],
           num_rlzs_disagg |-> 1] : n \in 1..3}

\* oq.imtls, as the list of its intensity-measure-types
ImtsChoices == {<<"PGA">>, <<"PGA", "SA(0.1)">>}

\* oq.poes_disagg; <<>> goes with a configured oq.iml_disagg
PoesChoices == {<<>>, <<Dec(1, 10)>>, <<Dec(1, 10), Dec(5, 10)>>}

\* oq.imtls[imt], the levels of a type (the same for every type): the single
\* configured level when oq.iml_disagg is given, else the levels of the curves
ImlsOf(iml_disagg) ==
    IF iml_disagg THEN <<Dec(2, 10)>> ELSE <<Dec(1, 10), Dec(2, 10)>>

\* util.closest_to_ref: the indices of all R curves, the closest to the mean
\* first; which order it is depends on the curves
Orders(R) == {o \in [1..R -> 0..(R - 1)] : \A i, j \in 1..R : i # j => o[i] # o[j]}

\* seq[:n]
Prefix(seq, n) == SubSeq(seq, 1, IF n < Len(seq) THEN n ELSE Len(seq))

\* numpy: whether vals can be assigned to a row of n elements
RowAssignOk(n, vals) == Len(vals) = n \/ Len(vals) = 1

\* numpy: the row of n elements after vals has been assigned to it
RowAssign(n, vals) == IF Len(vals) = n THEN vals ELSE [i \in 1..n |-> vals[1]]

ZOf(cfg) == IF cfg.given THEN Len(cfg.rlz_index) ELSE cfg.num_rlzs_disagg

SetMin(S) == CHOOSE x \in S : \A y \in S : x <= y

\* a slip: the assertion is compiled away
assert_Z_le_R_off(Z, R) == NoErr

\* the assertion of line 307
assert_Z_le_R(Z, R) ==
    IF Z <= R THEN NoErr ELSE Raise("AssertionError", "(Z, R)", <<Z, R>>)

\* Lines 290-309 for n sites: the exception raised if any, the array rlzs,
\* the sites whose probability curves were read and whether best_rlzs was
\* written.  order[sid] is what closest_to_ref returns for the site.
select_rlzs(n, R, cfg, order) ==
    LET Z == ZOf(cfg)
        zeros == [sid \in 0..(n - 1) |-> [z \in 1..Z |-> 0]]
        closest(sid) == Prefix(order[sid], Z)
        bad == {sid \in 0..(n - 1) : ~RowAssignOk(Z, closest(sid))}
    IN  IF ~cfg.given /\ R > 1 /\ bad # {}
        THEN [err |-> Raise("ValueError", "could not broadcast input array",
                            <<Len(closest(SetMin(bad))), Z>>),
              Z |-> Z, rlzs |-> zeros,
              pcurves |-> 0..SetMin(bad), best_rlzs |-> FALSE]
        ELSE [err |-> assert_Z_le_R(Z, R),
              Z |-> Z,
              rlzs |-> IF cfg.given
                       THEN [sid \in 0..(n - 1) |-> cfg.rlz_index]
                       ELSE IF R > 1
                       THEN [sid \in 0..(n - 1) |-> RowAssign(Z, closest(sid))]
                       ELSE zeros,
              pcurves |-> IF ~cfg.given /\ R > 1 THEN 0..(n - 1) ELSE {},
              best_rlzs |-> ~cfg.given /\ R > 1]

\* full_disaggregation, lines 282-309
SelectRlzs ==
    /\ pc = "atomic_ok"
    /\ \E R \in RChoices, cfg \in RlzConfigChoices, imts \in ImtsChoices,
          poes \in PoesChoices :
       \E order \in [Sids -> Orders(R)] :
       \E o \in {select_rlzs(N, R, cfg, order)} :
              /\ rd' = [R |-> R, rlz_index |-> cfg]
              /\ log' = log \cup {"full_lt"}
                            \cup (IF o.pcurves # {} THEN {"pcurves_read"} ELSE {})
              /\ datastore' = datastore
                    \cup (IF o.best_rlzs THEN {<<"best_rlzs">>} ELSE {})
              /\ IF o.err # NoErr
                 THEN \* lines 283-284 have run when line 301 or 307 raises
                      /\ Fail(o.err)
                      /\ calc' = calc @@ [imts |-> imts, poes |-> poes]
                 ELSE /\ pc' = "rlzs"
                      /\ err' = err
                      /\ calc' = calc @@ [R |-> R, Z |-> o.Z, rlzs |-> o.rlzs,
                                          imts |-> imts, poes |-> poes,
                                          iml_disagg |-> (poes = <<>>),
                                          imls |-> ImlsOf(poes = <<>>)]
    /\ UNCHANGED <<N, swmr, tasks>>
    /\ UNCHANGED redVars

(***************************************************************************)
(* Hazard curves and intensity levels, lines 311-324.  A hazard curve is   *)
(* None or the poes at the levels of an intensity-measure-type; the curves *)
(* drawn here are the same for every type.                                 *)
(***************************************************************************)
NoCurve == [present |-> FALSE, poes |-> <<>>]

CurveHi == [present |-> TRUE, poes |-> <<Dec(9, 10), Dec(1, 10)>>]

CurveLo == [present |-> TRUE, poes |-> <<Dec(1, 10), Dec(1, 100)>>]

\* get_curve: the curves of one site for its Z realizations
SiteCurveChoices(Z) ==
    {[z \in 1..Z |-> c] : c \in {NoCurve, CurveHi, CurveLo}}
    \cup {[z \in 1..Z |-> IF z = 1 THEN c ELSE NoCurve] : c \in {CurveHi, CurveLo}}

RECURSIVE FMaxFrom(_, _)
FMaxFrom(seq, i) ==
    IF i = Len(seq) THEN seq[i]
    ELSE LET rest == FMaxFrom(seq, i + 1)
         IN  IF FCmp(seq[i], rest) >= 0 THEN seq[i] ELSE rest

\* array.max()
FMax(seq) == FMaxFrom(seq, 1)

\* _check_curves for the curves of one site: whether it raises (a None has
\* no item) and else whether some poe is above the maximum of some curve
check_curves(curves, imts, poes) ==
    [raised |-> \E z \in DOMAIN curves : ~curves[z].present,
     bad |-> \E z \in DOMAIN curves, m \in DOMAIN imts, p \in DOMAIN poes :
                curves[z].present /\ FCmp(poes[p], FMax(curves[z].poes)) > 0]

AllNone(curves) == \A z \in DOMAIN curves : ~curves[z].present

\* check_poes_disagg: the exception raised if any and the ok sites
check_poes_disagg(curves, imts, poes) ==
    LET sids == DOMAIN curves
        ok == {sid \in sids : AllNone(curves[sid])
                                \/ ~check_curves(curves[sid], imts, poes).bad}
    IN  IF \E sid \in sids : ~AllNone(curves[sid])
                               /\ check_curves(curves[sid], imts, poes).raised
        THEN [err |-> Raise("TypeError", "'NoneType' object is not subscriptable", <<>>),
              ok_sites |-> {}]
        ELSE IF ok = {}
        THEN [err |-> Raise("SystemExit", "Cannot do any disaggregation", <<>>),
              ok_sites |-> {}]
        ELSE [err |-> NoErr, ok_sites |-> ok]

\* len(self.poes_disagg)
POf(c) == IF c.iml_disagg THEN 1 ELSE Len(c.poes)

\* numpy.nan
NaN == [nan |-> TRUE]

IsNaN(v) == "nan" \in DOMAIN v

\* seq[::-1]
Reversed(seq) == [i \in 1..Len(seq) |-> seq[Len(seq) + 1 - i]]

\* numpy.interp(x, xp, fp) for increasing xp: fp[0] on the left of xp, fp[-1]
\* on its right, fp[j] at xp[j], else slope * (x - xp[j]) + fp[j]; NaN at NaN
numpy_interp(x, xp, fp) ==
    LET n == Len(xp)
    IN  IF IsNaN(x) THEN NaN
        ELSE IF FCmp(x, xp[n]) > 0 THEN fp[n]
        ELSE IF FCmp(x, xp[1]) < 0 THEN fp[1]
        ELSE LET j == CHOOSE k \in 1..n :
                         FLe(xp[k], x) /\ (k = n \/ FCmp(x, xp[k + 1]) < 0)
             IN  IF j = n \/ xp[j] = x THEN fp[j]
                 ELSE CHOOSE v \in
                        {IF FLe(fp[j], fp[j + 1])
                         THEN FAdd(fp[j], t) ELSE FSub(fp[j], t) :
                           t \in {FMul(slope, FSub(x, xp[j])) :
                                    slope \in {FDiv(FDist(fp[j + 1], fp[j]),
                                                    FSub(xp[j + 1], xp[j]))}}} :
                        TRUE

\* the truth value of a curve in 'elif curve:' (line 86).  A curve is None
\* or what pmap[sid].convert(imtls) returns (line 238); convert is outside
\* this source tree, and following the contract of the intensity resolver
\* (a missing curve gives NaN, a retrieved one is inverted) None is false
\* and a retrieved curve is true.  The curves drawn here all reach a
\* non-zero poe.
curve_truth(curve) == curve.present

\* a slip: missing curves give 0 instead of NaN
iml3_of_zero_filled(n, P, Z, imts, imls, poes, curves) ==
    [m \in DOMAIN imts |->
        [spz \in (0..(n - 1)) \X (0..(P - 1)) \X (0..(Z - 1)) |->
            IF poes = <<>> THEN imls[1]
            ELSE IF curve_truth(curves[spz[1]][spz[3] + 1])
            THEN numpy_interp(poes[spz[2] + 1],
                              Reversed(curves[spz[1]][spz[3] + 1].poes),
                              Reversed(imls))
            ELSE FZero]]

\* _iml3: for each type the array [s, p, z] of levels; poes = <<>> stands for
\* poes_disagg == (None,), and curve_truth for 'elif curve:'.  The
\* curves being the same for every type, the interpolation of a curve at a
\* poe is computed once and looked up for every cell it goes to.
iml3_of(n, P, Z, imts, imls, poes, curves) ==
    LET levels == {[curve |-> c, p |-> p,
                    iml |-> numpy_interp(poes[p], Reversed(c.poes), Reversed(imls))] :
                      c \in {k \in {curves[s][z] : s \in 0..(n - 1), z \in 1..Z} :
                               curve_truth(k)},
                      p \in DOMAIN poes}
    IN  [m \in DOMAIN imts |->
            [spz \in (0..(n - 1)) \X (0..(P - 1)) \X (0..(Z - 1)) |->
                IF poes = <<>> THEN imls[1]
                ELSE IF curve_truth(curves[spz[1]][spz[3] + 1])
                THEN (CHOOSE r \in levels :
                         /\ r.curve = curves[spz[1]][spz[3] + 1]
                         /\ r.p = spz[2] + 1).iml
                ELSE NaN]]

(***************************************************************************)
(* build_disagg_by_src, lines 513-543, called when oq.disagg_by_src is     *)
(* set.  pcurves[<<s, rlz>>] is what self.pgetter.get_pcurve(s, rlz, grp)  *)
(* gives for the groups of the logic tree, in their order: None or the     *)
(* poes at the levels of a type (the same for every type).                 *)
(***************************************************************************)
RECURSIVE numpy_prod_from(_, _, _)
numpy_prod_from(seq, i, p) ==
    IF i > Len(seq) THEN p ELSE numpy_prod_from(seq, i + 1, FMul(p, seq[i]))

\* numpy.prod of a non-empty sequence
numpy_prod(seq) == numpy_prod_from(seq, 2, seq[1])

\* 1. - numpy.prod(1. - array)
OneMinusProd(seq) ==
    FSub(FOne, numpy_prod([i \in DOMAIN seq |-> FSub(FOne, seq[i])]))

\* lines 507 and 538: abs(1 - poe_agg / poe) > .1
too_different(poe_agg, poe) ==
    FCmp(FDist(FOne, FDiv(poe_agg, poe)), Dec(1, 10)) > 0

RECURSIVE by_src_poes_from(_, _, _, _)
by_src_poes_from(x, xs, gcurves, g) ==
    IF g > Len(gcurves) THEN <<>>
    ELSE <<IF gcurves[g].present THEN numpy_interp(x, xs, gcurves[g].poes)
           ELSE FZero>>
         \o by_src_poes_from(x, xs, gcurves, g + 1)

\* lines 520-530: the poes of the groups at the level x; a group without a
\* curve keeps its 0
by_src_poes(x, xs, gcurves) == by_src_poes_from(x, xs, gcurves, 1)

\* line 536: poes[m, p].sum() is not zero (a NaN is not)
by_src_nonzero(v) == \E g \in DOMAIN v : v[g] # FZero

\* line 537
by_src_poe_agg(v) ==
    IF \E g \in DOMAIN v : IsNaN(v[g]) THEN NaN ELSE OneMinusProd(v)

\* line 538: poe is neither None nor 0, and poe_agg is far from it
by_src_warns(c, poe_agg, p) ==
    /\ ~c.iml_disagg
    /\ c.poes[p + 1] # FZero
    /\ ~IsNaN(poe_agg)
    /\ too_different(poe_agg, c.poes[p + 1])

\* lines 533-535: the name of the dataset of (s, m, p)
by_src_name(c, s, m, p) ==
    <<"disagg_by_src/%s-%s-sid-%s",
      IF c.iml_disagg THEN <<"iml-%s", c.imls[1]>> ELSE <<"poe-%s", c.poes[p + 1]>>,
      c.imts[m], s>>

\* lines 519-537: the writes of line 542, each with the position (s, z, m, p)
\* of the loops it is made at, its name, the poes by group and poe_agg
by_src_writes(c, n, pcurves) ==
    LET at == {[w |-> w, x |-> c.iml3[w[3]][<<w[1], w[4], w[2]>>],
                gcurves |-> pcurves[<<w[1], c.rlzs[w[1]][w[2] + 1]>>]] :
                  w \in (0..(n - 1)) \X (0..(c.Z - 1)) \X (1..Len(c.imts))
                           \X (0..(POf(c) - 1))}
    IN  {[w |-> r.w, name |-> by_src_name(c, r.w[1], r.w[3], r.w[4]),
          poes |-> r.poes, poe_agg |-> by_src_poe_agg(r.poes)] :
            r \in {q \in {[w |-> a.w, poes |-> by_src_poes(a.x, c.imls, a.gcurves)] :
                             a \in at} :
                     by_src_nonzero(q.poes)}}

\* The datasets the method leaves in the store, with their attribute
\* poe_agg, and the warnings of line 539.  The loops run over (s, z), then m,
\* then p: a dataset written twice keeps what was written last.
build_disagg_by_src(c, writes) ==
    LET later(a, b) == \E i \in 1..4 :
                          a[i] > b[i] /\ \A j \in 1..(i - 1) : a[j] = b[j]
    IN  [sets |-> {[name |-> r.name, poes |-> r.poes, poe_agg |-> r.poe_agg] :
                      r \in {q \in writes :
                               \A u \in writes :
                                  u.name = q.name => ~later(u.w, q.w)}},
         warnings |-> {[poe_agg |-> r.poe_agg, poe |-> c.poes[r.w[4] + 1]] :
                          r \in {q \in writes :
                                   by_src_warns(c, q.poe_agg, q.w[4])}}]

\* the curves of the groups by level count: a group may have no curve, a
\* curve of zeros, or one that falls from 0.9
GrpNone == [present |-> FALSE, poes |-> <<>>]

GrpZero(levels) == [present |-> TRUE, poes |-> [i \in 1..levels |-> FZero]]

GrpHi(levels) ==
    [present |-> TRUE, poes |-> SubSeq(<<Dec(9, 10), Dec(1, 10)>>, 1, levels)]

\* oq.disagg_by_src and, when it is set, the curves of the two groups: the
\* second group contributes to realization 0 at site 0 and has a curve of
\* zeros at the other sites; it has no curve for the other realizations.
\* The parameter is drawn as set for the runs with one magnitude bin only
\* (the method does not look at the bins).
BySrcChoices(c, sids) ==
    {[on |-> FALSE, pcurves |-> EmptyDict]}
    \cup (IF c.bin_edges.mags.bins # 1 THEN {}
          ELSE {[on |-> TRUE,
                 pcurves |-> [sr \in sids \X (0..(c.R - 1)) |->
                                 IF sr[2] # 0 THEN <<GrpNone, GrpNone>>
                                 ELSE IF sr[1] = 0
                                 THEN <<GrpNone, GrpHi(Len(c.imls))>>
                                 ELSE <<GrpNone, GrpZero(Len(c.imls))>>]]})

\* full_disaggregation, lines 311-324
ResolveIml ==
    /\ pc = "rlzs"
    /\ \E by_src \in BySrcChoices(calc, Sids) :
       \E cs \in (IF calc.iml_disagg
                   THEN {[sid \in Sids |-> [z \in 1..calc.Z |-> NoCurve]]}
                   ELSE [Sids -> SiteCurveChoices(calc.Z)]) :
       \E chk \in {IF calc.iml_disagg
                    THEN [err |-> NoErr, ok_sites |-> Sids]
                    ELSE check_poes_disagg(cs, calc.imts, calc.poes)} :
              /\ log' = log \cup (IF calc.iml_disagg THEN {} ELSE {"curves_read"})
                            \cup (IF chk.err = NoErr /\ by_src.on
                                  THEN {"disagg_by_src"} ELSE {})
              /\ IF chk.err # NoErr
                 THEN /\ Fail(chk.err)
                      /\ calc' = calc
                      /\ rd' = [curves |-> cs]
                      /\ datastore' = datastore
                 ELSE /\ pc' = "iml3"
                      /\ err' = err
                      /\ calc' = calc @@
                            [ok_sites |-> chk.ok_sites,
                             iml3 |-> iml3_of(N, POf(calc), calc.Z, calc.imts,
                                              calc.imls, calc.poes, cs)]
                      /\ IF by_src.on
                         THEN \E ws \in {by_src_writes(calc', N, by_src.pcurves)} :
                              \E bs \in {build_disagg_by_src(calc, ws)} :
                                 /\ rd' = [curves |-> cs, disagg_by_src |-> bs]
                                 /\ datastore' = datastore
                                       \cup {d.name : d \in bs.sets}
                         ELSE /\ rd' = [curves |-> cs]
                              /\ datastore' = datastore
    /\ UNCHANGED <<N, swmr, tasks>>
    /\ UNCHANGED redVars

(***************************************************************************)
(* save_bin_edges, lines 398-416.                                          *)
(***************************************************************************)
MaxElements == 1000000

\* a slip: the number of tectonic region types is left out
matrix_size_no_trt(b, T) ==
    b.mags.bins * b.dists.bins * b.lons[0].bins * b.lats[0].bins * b.eps.bins

\* numpy.prod(shape) of lines 403-406
matrix_size(b, T) ==
    b.mags.bins * b.dists.bins * b.lons[0].bins * b.lats[0].bins * b.eps.bins * T

\* a slip: the ceiling itself is refused
too_large_at_ceiling(size) == size >= MaxElements

\* line 407
too_large(size) == size > MaxElements

\* the datasets written by lines 411-416
BinDatasets(sids) ==
    {<<"disagg-bins/mags">>, <<"disagg-bins/dists">>, <<"disagg-bins/eps">>}
    \cup {<<"disagg-bins/lons/sid-%d", sid>> : sid \in sids}
    \cup {<<"disagg-bins/lats/sid-%d", sid>> : sid \in sids}

\* full_disaggregation, line 326
SaveBinEdges ==
    /\ pc = "iml3"
    /\ LET size == matrix_size(calc.bin_edges, Len(calc.trts))
       IN  IF too_large(size)
           THEN /\ Fail(Raise("ValueError",
                              "The disaggregation matrix is too large (%d elements): fix the binning!",
                              <<size>>))
                /\ datastore' = datastore
           ELSE /\ pc' = "bins"
                /\ err' = err
                /\ datastore' = datastore \cup BinDatasets(Sids)
    /\ rd' = EmptyDict
    /\ log' = log \cup {"save_bin_edges"}
    /\ UNCHANGED <<N, calc, swmr, tasks>>
    /\ UNCHANGED redVars

(***************************************************************************)
(* Task preparation, lines 327-374.  The rupture store is the sequence of  *)
(* the ruptures' [gidx, mag], rupture indices counting from 0; group gidx  *)
(* is of tectonic region type gidx.                                        *)
(***************************************************************************)
Min2(a, b) == IF a < b THEN a ELSE b

CeilDiv(a, b) == (a + b - 1) \div b

Rup(gidx, mag) == [gidx |-> gidx, mag |-> mag]

\* the rupture stores of a run: those of StoreChoices whose groups are among
\* the T tectonic region types and whose magnitudes are within the edges, the
\* first and the last edge included (the edges are built around the smallest
\* and the largest magnitude of the sources)
StoreChoices ==
    {<<Rup(0, 55)>>,
     <<Rup(0, 55), Rup(0, 55)>>,
     <<Rup(0, 65), Rup(0, 55)>>,
     <<Rup(1, 55), Rup(0, 65), Rup(0, 65)>>,
     <<Rup(0, 50), Rup(0, 60)>>,
     <<Rup(0, 70)>>}

RupChoices(T, mag_edges) ==
    {st \in StoreChoices :
        \A i \in DOMAIN st :
            /\ st[i].gidx < T
            /\ mag_edges.first <= st[i].mag
            /\ st[i].mag <= mag_edges.first + mag_edges.bins * mag_edges.step}

\* oq.concurrent_tasks
ConcurrentTasksChoices == {0, 1, 2}

\* oq.max_data_transfer
MaxTransferChoices == {16, 64, 2000000000}

\* numpy.searchsorted(mag_edges, mag) - 1
mag_index(mag_edges, mag) ==
    Cardinality({i \in 0..mag_edges.bins :
                    mag_edges.first + i * mag_edges.step < mag}) - 1

RECURSIVE SortedSeq(_)
\* the integers of S in increasing order
SortedSeq(S) ==
    IF S = {} THEN <<>>
    ELSE <<SetMin(S)>> \o SortedSeq(S \ {SetMin(S)})

\* get_indices_by_gidx_mag: <<gidx, magi>> -> the sorted rupture indices
get_indices_by_gidx_mag(store, mag_edges) ==
    LET key(i) == <<store[i].gidx, mag_index(mag_edges, store[i].mag)>>
        keys == {key(i) : i \in DOMAIN store}
    IN  [k \in keys |-> SortedSeq({i - 1 : i \in {j \in DOMAIN store : key(j) = k}})]

PairLess(a, b) == a[1] < b[1] \/ (a[1] = b[1] /\ a[2] < b[2])

RECURSIVE KeySeq(_)
\* the keys in the order the grouping meets them: by gidx, then by magnitude
KeySeq(keys) ==
    IF keys = {} THEN <<>>
    ELSE LET k == CHOOSE x \in keys : \A y \in keys : x = y \/ PairLess(x, y)
         IN  <<k>> \o KeySeq(keys \ {k})

\* int(numpy.ceil(U / (oq.concurrent_tasks or 1) * M)), the division being
\* exact for the task numbers drawn here
blocksize_of(U, concurrent_tasks, M) ==
    CeilDiv(U * M, IF concurrent_tasks = 0 THEN 1 ELSE concurrent_tasks)

\* general.block_splitter: consecutive blocks of at most size items
block_splitter(items, size) ==
    [b \in 1..CeilDiv(Len(items), size) |->
        SubSeq(items, (b - 1) * size + 1, Min2(b * size, Len(items)))]

\* a slip: one task per block, the types taking turns
TasksOfKey_one_per_block(k, blocks, M) ==
    [j \in 1..Len(blocks) |->
        [idxs |-> blocks[j], trti |-> k[1], magi |-> k[2],
         imti |-> (j - 1) % M]]

\* the arguments of the tasks of one key: per block, per type
TasksOfKey(k, blocks, M) ==
    [j \in 1..(Len(blocks) * M) |->
        [idxs |-> blocks[((j - 1) \div M) + 1], trti |-> k[1], magi |-> k[2],
         imti |-> (j - 1) % M]]

RECURSIVE AllArgsFrom(_, _, _, _)
AllArgsFrom(keyseq, indices, size, M) ==
    IF keyseq = <<>> THEN <<>>
    ELSE TasksOfKey(Head(keyseq), block_splitter(indices[Head(keyseq)], size), M)
         \o AllArgsFrom(Tail(keyseq), indices, size, M)

\* allargs of lines 350-361
all_args(store, mag_edges, concurrent_tasks, M) ==
    LET indices == get_indices_by_gidx_mag(store, mag_edges)
    IN  AllArgsFrom(KeySeq(DOMAIN indices), indices,
                    blocksize_of(Len(store), concurrent_tasks, M), M)

\* shapedic without trt, mag and M, with the number of tasks (lines 364-368)
transfer_shape(c, n, ntasks) ==
    [dist |-> c.bin_edges.dists.bins, lon |-> c.bin_edges.lons[0].bins,
     lat |-> c.bin_edges.lats[0].bins, eps |-> c.bin_edges.eps.bins,
     N |-> n, P |-> POf(c), Z |-> c.Z, tasks |-> ntasks]

\* general.get_array_nbytes: 8 bytes per element
get_array_nbytes(sd) ==
    8 * sd.dist * sd.lon * sd.lat * sd.eps * sd.N * sd.P * sd.Z * sd.tasks

\* a slip: an estimate equal to the limit is refused
transfer_too_big_at_limit(nbytes, max_data_transfer) == nbytes >= max_data_transfer

\* line 370
transfer_too_big(nbytes, max_data_transfer) == nbytes > max_data_transfer

\* full_disaggregation, lines 327-374
PrepareTasks ==
    /\ pc = "bins"
    /\ \E store \in RupChoices(Len(calc.trts), calc.bin_edges.mags),
          concurrent_tasks \in ConcurrentTasksChoices :
       \E allargs \in {all_args(store, calc.bin_edges.mags, concurrent_tasks,
                                Len(calc.imts))} :
       \E nbytes \in {get_array_nbytes(transfer_shape(calc, N, Len(allargs)))} :
       \E max_data_transfer \in MaxTransferChoices :
          /\ rd' = [max_data_transfer |-> max_data_transfer, store |-> store,
                    nbytes |-> nbytes, ntasks |-> Len(allargs)]
          /\ IF transfer_too_big(nbytes, max_data_transfer)
             THEN /\ Fail(Raise("ValueError",
                                "Estimated data transfer too big %s > max_data_transfer=%s",
                                <<nbytes, max_data_transfer>>))
                  /\ calc' = calc
             ELSE /\ pc' = "prepared"
                  /\ err' = err
                  /\ calc' = calc @@ [allargs |-> allargs]
    /\ log' = log \cup {"rup_read"}
    /\ UNCHANGED <<N, datastore, swmr, tasks>>
    /\ UNCHANGED redVars

\* a slip: swmr_on is called before save_bin_edges
SwmrOn_before_save_bin_edges ==
    /\ pc = "iml3"
    /\ ~swmr
    /\ swmr' = TRUE
    /\ pc' = "iml3"
    /\ rd' = rd
    /\ UNCHANGED <<N, calc, datastore, err, log, tasks>>
    /\ UNCHANGED redVars

\* line 375
SwmrOn ==
    /\ pc = "prepared"
    /\ swmr' = TRUE
    /\ pc' = "swmr"
    /\ rd' = EmptyDict
    /\ UNCHANGED <<N, calc, datastore, err, log, tasks>>
    /\ UNCHANGED redVars

\* line 376: the Starmap takes the tasks
Submit ==
    /\ pc = "swmr"
    /\ tasks' = calc.allargs
    /\ pc' = "submitted"
    /\ rd' = EmptyDict
    /\ UNCHANGED <<N, calc, datastore, swmr, err, log>>
    /\ UNCHANGED redVars

Next ==
    \/ init
    \/ GetEdges
    \/ CheckAtomic
    \/ SelectRlzs
    \/ ResolveIml
    \/ SaveBinEdges
    \/ PrepareTasks
    \/ SwmrOn
    \/ Submit

Spec == Init /\ [][Next]_vars

(***************************************************************************)
(* Properties of the run up to the submission of the tasks.                *)
(***************************************************************************)
\* nothing of full_disaggregation has happened yet
NothingProcessed ==
    /\ DOMAIN calc = {}
    /\ datastore = {}
    /\ tasks = <<>>
    /\ ~swmr

\* C5: init raises a ValueError exactly when N >= 32768 or N > max_sites_disagg,
\* and it does so before the parent initialisation and before any bin edge,
\* realization, hazard curve or task is processed; otherwise it raises nothing.
C5_SiteLimitsFirst ==
    /\ "max_sites_disagg" \in DOMAIN rd =>
          IF N >= SiteLimit \/ N > rd.max_sites_disagg
          THEN pc = "failed" /\ err.type = "ValueError" /\ log = {} /\ NothingProcessed
          ELSE pc = "init_done" /\ err = NoErr /\ log = {"super_init"}
    /\ log # {} => N < SiteLimit

C5_Witness ==
    /\ "max_sites_disagg" \in DOMAIN rd
    /\ N = SiteLimit
    /\ rd.max_sites_disagg > N
    /\ pc = "failed"

\* the product of the bin counts of the 6-D shape of the run
ElementCount6 ==
    LET b == calc.bin_edges
    IN  b.mags.bins * b.dists.bins * b.lons[0].bins * b.lats[0].bins
        * b.eps.bins * Len(calc.trts)

\* the 6-D count times points-of-exceedance times realizations
ElementCount8 == ElementCount6 * POf(calc) * calc.Z

\* C6: when the 6-D bin count exceeds 1,000,000 no disagg-bins dataset is ever
\* written and no task is ever submitted, and save_bin_edges fails with a
\* ValueError carrying that count; a count of exactly 1,000,000 (or less) is
\* accepted and the bins are written.
C6_TooLargeFails ==
    "bin_edges" \in DOMAIN calc =>
       /\ ElementCount6 > 1000000 =>
             /\ datastore \cap BinDatasets(Sids) = {}
             /\ tasks = <<>>
             /\ pc \notin {"bins", "prepared", "swmr", "submitted"}
       /\ "save_bin_edges" \in log =>
             IF ElementCount6 > 1000000
             THEN pc = "failed" /\ err.type = "ValueError"
                  /\ err.vals = <<ElementCount6>>
             ELSE /\ BinDatasets(Sids) \subseteq datastore
                  /\ pc = "failed" => err.vals # <<ElementCount6>>

C6_Witness ==
    /\ "bin_edges" \in DOMAIN calc
    /\ "save_bin_edges" \in log
    /\ ElementCount6 = 1000001
    /\ pc = "failed"
    /\ err.vals = <<1000001>>

\* C7 as stated: no run reaches task submission when the 8-D tensor (the 6-D
\* shape times points-of-exceedance times realizations) has more than
\* 1,000,000 elements.
C7_EightDCeiling ==
    tasks # <<>> => ElementCount8 <= 1000000

\* C7 amended: the ceiling covers the 6-D shape only: no run reaches task
\* submission when the 6-D shape has more than 1,000,000 elements.
C7_SixDCeilingOnly ==
    tasks # <<>> => ElementCount6 <= 1000000

C7_Witness ==
    /\ tasks # <<>>
    /\ ElementCount6 = 1000000
    /\ ElementCount8 > 1000000

\* C8: if a source group is atomic (in the in-memory source model, or flagged
\* in the stored source_info when there is no in-memory model) the run fails
\* with NotImplementedError before realizations are selected, hazard curves
\* read, anything persisted or any task submitted; otherwise it goes on.
C8_AtomicFailsFirst ==
    "csm" \in DOMAIN rd =>
       IF rd.csm = "atomic" \/ (rd.csm = "absent" /\ rd.info_atomic)
       THEN /\ pc = "failed"
            /\ err.type = "NotImplementedError"
            /\ log \cap {"full_lt", "pcurves_read", "curves_read",
                         "save_bin_edges", "rup_read"} = {}
            /\ DOMAIN calc = {"bin_edges", "trts"}
            /\ datastore = {}
            /\ tasks = <<>>
            /\ ~swmr
       ELSE pc = "atomic_ok" /\ err = NoErr

C8_Witness ==
    /\ "csm" \in DOMAIN rd
    /\ rd.csm = "absent"
    /\ rd.info_atomic
    /\ pc = "failed"

\* C9: the transfer estimate is 8 bytes times the shape dictionary's entries
\* (without trt, mag and M) times the number of tasks; when it exceeds
\* max_data_transfer the run fails with a ValueError carrying it, no task
\* submitted and SWMR off; an estimate up to the ceiling, the ceiling
\* included, is accepted; tasks are submitted and SWMR switched on only after.
C9_TransferCeiling ==
    /\ "max_data_transfer" \in DOMAIN rd =>
          /\ rd.nbytes = 8 * calc.bin_edges.dists.bins * calc.bin_edges.lons[0].bins
                           * calc.bin_edges.lats[0].bins * calc.bin_edges.eps.bins
                           * N * POf(calc) * calc.Z * rd.ntasks
          /\ tasks = <<>>
          /\ ~swmr
          /\ IF rd.nbytes > rd.max_data_transfer
             THEN pc = "failed" /\ err.type = "ValueError"
                  /\ err.vals = <<rd.nbytes, rd.max_data_transfer>>
             ELSE pc = "prepared" /\ err = NoErr /\ Len(calc.allargs) = rd.ntasks
    /\ (swmr \/ tasks # <<>>) => "allargs" \in DOMAIN calc

C9_Witness ==
    /\ "max_data_transfer" \in DOMAIN rd
    /\ rd.nbytes > rd.max_data_transfer
    /\ pc = "failed"

\* C10: for every configuration a run with Z > R is stopped by the Z <= R
\* assertion and reaches neither hazard-curve reading nor task submission.
C10_AssertionStops ==
    ("rlz_index" \in DOMAIN rd /\ ZOf(rd.rlz_index) > rd.R) =>
       /\ pc = "failed"
       /\ err.type = "AssertionError"
       /\ log \cap {"pcurves_read", "curves_read"} = {}
       /\ tasks = <<>>

(***************************************************************************)
(* Properties of the check of the poes against the hazard curves.          *)
(***************************************************************************)
\* the curves read by the last step make the site too weak: for some selected
\* realization (and type) some requested poe is above the maximum of the curve
PoeAboveCurve(sid) ==
    \E z \in 1..calc.Z, p \in DOMAIN calc.poes :
       /\ rd.curves[sid][z].present
       /\ FCmp(calc.poes[p], FMax(rd.curves[sid][z].poes)) > 0

\* the last step has read the hazard curves
CurvesChecked == "curves" \in DOMAIN rd /\ ~calc.iml_disagg

\* C11: check_poes_disagg excludes a site exactly when some requested poe is
\* strictly above the maximum of the curve of some selected realization;
\* every other site stays in ok_sites and the run goes on as long as one
\* site is ok.
C11_ExcludedExactlyWhenAbove ==
    (CurvesChecked /\ \E sid \in Sids : ~PoeAboveCurve(sid)) =>
       /\ pc = "iml3"
       /\ calc.ok_sites = {sid \in Sids : ~PoeAboveCurve(sid)}

\* C12: when the requested poe is above the maximum curve probability at every
\* site, the run stops with 'Cannot do any disaggregation' before the levels
\* are built, the bin edges persisted or a task submitted.
C12_NoSiteAborts ==
    (CurvesChecked /\ \A sid \in Sids : PoeAboveCurve(sid)) =>
       /\ pc = "failed"
       /\ err.type = "SystemExit"
       /\ err.text = "Cannot do any disaggregation"
       /\ "iml3" \notin DOMAIN calc
       /\ datastore \cap BinDatasets(Sids) = {}
       /\ tasks = <<>>

(***************************************************************************)
(* Properties of the magnitude-bin index.                                  *)
(***************************************************************************)
\* the task of the prepared run that holds rupture u (counted from 0) for the
\* first intensity-measure-type
TasksOfRupture(u) ==
    {k \in DOMAIN calc.allargs :
        /\ calc.allargs[k].imti = 0
        /\ \E j \in DOMAIN calc.allargs[k].idxs : calc.allargs[k].idxs[j] = u}

\* C16: for every rupture magnitude within the magnitude edges, both ends
\* included, the magnitude-bin index lies in [0, len(mag_edges) - 2], and a
\* magnitude equal to the last edge falls in the last bin.
C16_MagIndexInRange ==
    ("store" \in DOMAIN rd /\ pc = "prepared") =>
       \A u \in DOMAIN rd.store :
          \A k \in TasksOfRupture(u - 1) :
             /\ calc.allargs[k].magi >= 0
             /\ calc.allargs[k].magi <= LenEdges(calc.bin_edges.mags) - 2
             /\ (rd.store[u].mag = calc.bin_edges.mags.first
                    + calc.bin_edges.mags.bins * calc.bin_edges.mags.step)
                   => calc.allargs[k].magi = LenEdges(calc.bin_edges.mags) - 2

(***************************************************************************)
(* Properties of the intensity levels.                                     *)
(***************************************************************************)
\* x + y, unrounded
XAdd(x, y) ==
    LET e == FMinE(x, y)
    IN  FNorm(BAdd(BShl(x.m, x.e - e), BShl(y.m, y.e - e)), e)

\* v is the level at which the curve with probabilities cp (decreasing) at
\* the levels imls (increasing) has probability poe: the level of a knot at
\* a knot, between the two neighbouring levels and on the chord (up to
\* 2^-50) between two knots, the nearest level outside the curve
InverseAt(v, cp, imls, poe) ==
    /\ \A l \in DOMAIN cp : cp[l] = poe => v = imls[l]
    /\ FCmp(poe, cp[1]) > 0 => v = imls[1]
    /\ FCmp(poe, cp[Len(cp)]) < 0 => v = imls[Len(cp)]
    /\ \A l \in 1..(Len(cp) - 1) :
          (FCmp(cp[l + 1], poe) < 0 /\ FCmp(poe, cp[l]) < 0) =>
             /\ FLe(imls[l], v)
             /\ FLe(v, imls[l + 1])
             /\ FLe(XDist(XMul(XDist(v, imls[l]), XDist(cp[l], cp[l + 1])),
                          XMul(XDist(imls[l + 1], imls[l]), XDist(cp[l], poe))),
                    Pow2Times(1, -50))

\* C14: for every type _iml3 gives an N x P x Z array; with requested poes the
\* entries of a missing curve are NaN (not 0) and those of a present curve
\* are the inverse interpolation of the curve at the poe; without poes every
\* entry is the configured level and no curve is read.
C14_Iml3 ==
    (pc = "iml3" /\ "curves" \in DOMAIN rd) =>
       /\ calc.iml_disagg => "curves_read" \notin log
       /\ \A m \in DOMAIN calc.imts :
             /\ DOMAIN calc.iml3[m]
                   = Sids \X (0..(POf(calc) - 1)) \X (0..(calc.Z - 1))
             /\ \A spz \in DOMAIN calc.iml3[m] :
                   LET v == calc.iml3[m][spz]
                       c == rd.curves[spz[1]][spz[3] + 1]
                   IN  IF calc.iml_disagg THEN v = calc.imls[1]
                       ELSE IF ~c.present THEN IsNaN(v)
                       ELSE /\ ~IsNaN(v)
                            /\ InverseAt(v, c.poes, calc.imls,
                                         calc.poes[spz[2] + 1])

C14_Witness ==
    /\ pc = "iml3"
    /\ "curves" \in DOMAIN rd
    /\ ~calc.iml_disagg
    /\ \E spz \in DOMAIN calc.iml3[1] : IsNaN(calc.iml3[1][spz])
    /\ \E spz \in DOMAIN calc.iml3[1] :
          /\ rd.curves[spz[1]][spz[3] + 1].present
          /\ FCmp(calc.poes[spz[2] + 1], rd.curves[spz[1]][spz[3] + 1].poes[1]) < 0
          /\ FCmp(rd.curves[spz[1]][spz[3] + 1].poes[2], calc.poes[spz[2] + 1]) < 0

(***************************************************************************)
(* The run after the submission: the tasks (compute_disagg), the reduction *)
(* of what they yield, and post_execute.  The runs followed here have one  *)
(* intensity-measure-type and one bin of distance, longitude, latitude and *)
(* epsilon, so that a 6-D matrix (D, Lo, La, E, P, Z) has the P * Z cells  *)
(* [0, 0, 0, 0, p, z], kept at index p * Z + z + 1 of an array.            *)
(***************************************************************************)
PostShapes ==
    [one |-> [mag |-> 1, dist |-> 1, lon |-> 1, lat |-> 1, eps |-> 1, trt |-> 1],
     two |-> [mag |-> 2, dist |-> 1, lon |-> 1, lat |-> 1, eps |-> 1, trt |-> 2]]

RlzGiven(Z) == [given |-> TRUE, rlz_index |-> [i \in 1..Z |-> i - 1],
                num_rlzs_disagg |-> 1]

\* the configurations and stores of the runs followed after the submission
PostConfigs ==
    {\* two sites, the curve of the second below the larger poe
     [n |-> 2, shape |-> PostShapes.one, R |-> 1, cfg |-> RlzGiven(1),
      poes |-> <<Dec(1, 10), Dec(5, 10)>>,
      curves |-> (0 :> <<CurveHi>> @@ 1 :> <<CurveLo>>),
      store |-> <<Rup(0, 55)>>, concurrent_tasks |-> 1],
     \* two realizations, two tasks for the same key
     [n |-> 1, shape |-> PostShapes.one, R |-> 2, cfg |-> RlzGiven(2),
      poes |-> <<Dec(1, 10)>>,
      curves |-> (0 :> <<CurveHi, CurveHi>>),
      store |-> <<Rup(0, 55), Rup(0, 55)>>, concurrent_tasks |-> 2],
     \* two tectonic region types and two magnitude bins
     [n |-> 1, shape |-> PostShapes.two, R |-> 1, cfg |-> RlzGiven(1),
      poes |-> <<Dec(1, 10)>>,
      curves |-> (0 :> <<CurveHi>>),
      store |-> <<Rup(1, 55), Rup(0, 65), Rup(0, 65)>>, concurrent_tasks |-> 1],
     \* a rupture at the first magnitude edge, one and two magnitude bins
     [n |-> 1, shape |-> PostShapes.one, R |-> 1, cfg |-> RlzGiven(1),
      poes |-> <<Dec(1, 10)>>,
      curves |-> (0 :> <<CurveHi>>),
      store |-> <<Rup(0, 50), Rup(0, 60)>>, concurrent_tasks |-> 1],
     [n |-> 1, shape |-> PostShapes.two, R |-> 1, cfg |-> RlzGiven(1),
      poes |-> <<Dec(1, 10)>>,
      curves |-> (0 :> <<CurveHi>>),
      store |-> <<Rup(0, 50), Rup(0, 60)>>, concurrent_tasks |-> 1],
     \* a configured intensity level instead of poes
     [n |-> 1, shape |-> PostShapes.one, R |-> 1, cfg |-> RlzGiven(1),
      poes |-> <<>>,
      curves |-> (0 :> <<NoCurve>>),
      store |-> <<Rup(0, 55)>>, concurrent_tasks |-> 1]}

\* the attributes full_disaggregation has set by the time it submits
PostCalc(k) ==
    LET sids == 0..(k.n - 1)
        edges == get_edges(k.shape, sids)
        imts == <<"PGA">>
        iml_disagg == (k.poes = <<>>)
        o == select_rlzs(k.n, k.R, k.cfg, [sid \in sids |-> [i \in 1..k.R |-> i - 1]])
        chk == IF iml_disagg THEN [err |-> NoErr, ok_sites |-> sids]
               ELSE check_poes_disagg(k.curves, imts, k.poes)
    IN  [bin_edges |-> edges,
         trts |-> [t \in 1..k.shape.trt |-> t - 1],
         R |-> k.R, Z |-> o.Z, rlzs |-> o.rlzs, imts |-> imts,
         poes |-> k.poes, iml_disagg |-> iml_disagg,
         imls |-> ImlsOf(iml_disagg),
         ok_sites |-> chk.ok_sites,
         iml3 |-> iml3_of(k.n, IF iml_disagg THEN 1 ELSE Len(k.poes), o.Z,
                          imts, ImlsOf(iml_disagg), k.poes, k.curves),
         allargs |-> all_args(k.store, edges.mags, k.concurrent_tasks, Len(imts))]

\* the state of a task that has not started
NewTask == [at |-> "new", sid |-> 0, seen |-> {}]

InitPost ==
    /\ pc = "submitted"
    /\ \E k \in PostConfigs : \E c \in {PostCalc(k)} :
          /\ N = k.n
          /\ calc = c
          /\ tasks = c.allargs
          /\ tstate = [tid \in DOMAIN c.allargs |-> NewTask]
          /\ datastore = BinDatasets(0..(k.n - 1))
          /\ log = {"super_init", "edges", "full_lt", "save_bin_edges", "rup_read"}
                      \cup (IF c.iml_disagg THEN {} ELSE {"curves_read"})
    /\ rd = EmptyDict
    /\ swmr = TRUE
    /\ err = NoErr
    /\ results = <<>>
    /\ queue = {}
    /\ received = {}
    /\ acc = EmptyDict
    /\ args = <<>>
    /\ out = <<>>
    /\ tom = NoTom
    /\ keyorder = EmptyDict
    /\ disagg = EmptyDict
    /\ warnings = {}

\* the P * Z cells of a 6-D matrix
NumCells(c) == POf(c) * c.Z

CellOf(c, p, z) == p * c.Z + z + 1

\* what disagg.build_disagg_matrix may give for one site: probabilities, one
\* of them the smallest 1 - x above 0
PostMats(cells) ==
    {Arr([i \in 1..cells |-> Dec(1, 10)]),
     Arr([i \in 1..cells |-> IF i = 1 THEN Dec(5, 10) ELSE FZero]),
     Arr([i \in 1..cells |-> IF i = 1 THEN Pow2Times(1, -53) ELSE FZero])}

\* compute_disagg, lines 119-130: the task reads its ruptures and sets the
\* class attribute RuptureContext.temporal_occurrence_model to a new object
TaskStart ==
    /\ pc = "submitted"
    /\ \E tid \in DOMAIN tstate :
          /\ tstate[tid].at = "new"
          /\ tstate' = [tstate EXCEPT ![tid].at = "running"]
          /\ tom' = [set |-> TRUE, by |-> tid]
    /\ UNCHANGED <<pc, results, queue, received, acc, args, out>>
    /\ UNCHANGED <<keyorder, disagg, warnings>>
    /\ UNCHANGED runVars

\* the state of task tid after the site it is at: lines 135-145 build the
\* contexts of the site, each a RuptureContext that has the class attribute
\* as it is now; a site without a close rupture builds none
AfterSite(tid, ctxs) ==
    [at |-> IF tstate[tid].sid + 1 = N THEN "done" ELSE "running",
     sid |-> tstate[tid].sid + 1,
     seen |-> tstate[tid].seen \cup (IF ctxs THEN {tom.by} ELSE {})]

\* compute_disagg, lines 131-166, for the next site of sitecol.sids: the
\* site has no rupture close enough and no context is built (line 147), or
\* its contexts are built and pnes or the matrix is all zero...
TaskSkipsSite ==
    /\ pc = "submitted"
    /\ \E tid \in DOMAIN tstate, ctxs \in BOOLEAN :
          /\ tstate[tid].at = "running"
          /\ tstate' = [tstate EXCEPT ![tid] = AfterSite(tid, ctxs)]
    /\ UNCHANGED <<pc, results, queue, received, acc, args, out>>
    /\ UNCHANGED <<tom, keyorder, disagg, warnings>>
    /\ UNCHANGED runVars

\* ... or the task yields the matrix of the site
TaskYields ==
    /\ pc = "submitted"
    /\ \E tid \in DOMAIN tstate, matrix \in PostMats(NumCells(calc)) :
          /\ tstate[tid].at = "running"
          /\ tstate' = [tstate EXCEPT ![tid] = AfterSite(tid, TRUE)]
          /\ results' = Append(results,
                MkResult(<<tasks[tid].trti, tasks[tid].magi, tasks[tid].imti>>,
                         tstate[tid].sid, matrix))
          /\ queue' = queue \cup {Len(results) + 1}
    /\ UNCHANGED <<pc, received, acc, args, out>>
    /\ UNCHANGED <<tom, keyorder, disagg, warnings>>
    /\ UNCHANGED runVars

\* an exception inside compute_disagg ends the task before it is done: before
\* the loop over the sites, or at a site before its contexts are built (line
\* 133) or after (lines 158, 163)
TaskFails ==
    /\ pc = "submitted"
    /\ \E tid \in DOMAIN tstate, ctxs \in BOOLEAN :
          /\ tstate[tid].at \in {"new", "running"}
          /\ ctxs => tstate[tid].at = "running"
          /\ tstate' = [tstate EXCEPT ![tid] =
                           [AfterSite(tid, ctxs) EXCEPT
                               !.at = "failed", !.sid = tstate[tid].sid]]
    /\ UNCHANGED <<pc, results, queue, received, acc, args, out>>
    /\ UNCHANGED <<tom, keyorder, disagg, warnings>>
    /\ UNCHANGED runVars

\* smap.reduce, line 378, re-raises the exception of a failed task in the
\* main process: full_disaggregation does not return
ReduceRaises ==
    /\ pc = "submitted"
    /\ \E tid \in DOMAIN tstate : tstate[tid].at = "failed"
    /\ pc' = "failed"
    /\ err' = Raise("TaskError", "compute_disagg", <<>>)
    /\ UNCHANGED <<N, rd, calc, datastore, swmr, log, tasks>>
    /\ UNCHANGED redVars

\* list(dic) after dic[tm] = ... : a new key goes last
KeysAfter(keys, tm) ==
    IF \E i \in DOMAIN keys : keys[i] = tm THEN keys ELSE Append(keys, tm)

\* smap.reduce: agg_result on a result that has arrived
Reduce ==
    /\ pc = "submitted"
    /\ \E rid \in queue :
          /\ acc' = agg_result(acc, results[rid])
          /\ keyorder' =
                [ms \in DOMAIN keyorder \cup Touched(results[rid]) |->
                    IF ms \in Touched(results[rid])
                    THEN KeysAfter(IF ms \in DOMAIN keyorder
                                   THEN keyorder[ms] ELSE <<>>,
                                   <<results[rid].trti, results[rid].magi>>)
                    ELSE keyorder[ms]]
          /\ queue' = queue \ {rid}
          /\ received' = received \cup {rid}
    /\ UNCHANGED <<pc, results, args, out>>
    /\ UNCHANGED <<tom, tstate, disagg, warnings>>
    /\ UNCHANGED runVars

(***************************************************************************)
(* post_execute, lines 418-434, and _matrix, lines 65-71.  A tensor        *)
(* (T, Ma, D, Lo, La, E, P, Z) is a function <<t, ma>> -> the array of     *)
(* the P * Z cells.                                                        *)
(***************************************************************************)
\* the position a Python index refers to on an axis of n positions
PyIndex(i, n) == IF i < 0 THEN i + n ELSE i

RECURSIVE matrix_fill(_, _, _, _)
\* the loop of _matrix over the keys of the dictionary, in their order
matrix_fill(mat, matrices, keys, Ma) ==
    IF keys = <<>> THEN mat
    ELSE matrix_fill(
            [mat EXCEPT ![<<Head(keys)[1], PyIndex(Head(keys)[2], Ma)>>] =
                            matrices[Head(keys)]],
            matrices, Tail(keys), Ma)

\* _matrix(matrices, num_trts, num_mag_bins), keys being list(matrices)
matrix_of(matrices, keys, T, Ma) ==
    matrix_fill([tm \in (0..(T - 1)) \X (0..(Ma - 1)) |->
                    Arr([i \in DOMAIN matrices[keys[1]].arr |-> FZero])],
                matrices, keys, Ma)

(***************************************************************************)
(* The PMFs.  The functions of disagg.pmf_map work on an array whose first *)
(* axis is the tectonic region type (names ending in TRT) or the magnitude *)
(* (the others); the array is given as the sequence of its slices along    *)
(* the first axis, each slice the sequence of its cells.                   *)
(***************************************************************************)
\* the names of disagg.pmf_map, in its order
PmfKeys ==
    <<"Mag", "Dist", "TRT", "Mag_Dist", "Mag_Dist_Eps", "Lon_Lat",
      "Mag_Lon_Lat", "Lon_Lat_TRT">>

\* key.endswith('TRT')
EndsWithTRT(key) == key \in {"TRT", "Lon_Lat_TRT"}

RECURSIVE Flat(_)
Flat(slices) == IF slices = <<>> THEN <<>> ELSE Head(slices) \o Flat(Tail(slices))

\* the PMF a function of disagg.pmf_map extracts: Dist and Lon_Lat keep no
\* first axis, the others keep it (and no more, every other axis having one
\* bin)
pmf_fn(key, slices) ==
    IF key \in {"Dist", "Lon_Lat"} THEN <<OneMinusProd(Flat(slices))>>
    ELSE [i \in DOMAIN slices |-> OneMinusProd(slices[i])]

\* matrix6, of shape (T, Ma, 1, 1, 1, 1), as slices
WithTrt(matrix6, T, Ma) ==
    [t \in 1..T |-> [i \in 1..Ma |-> matrix6[<<t - 1, i - 1>>]]]

\* agg_probs(*matrix6), of shape (Ma, 1, 1, 1, 1), as slices
Collapsed(matrix6, T, Ma) ==
    LET rows == WithTrt(matrix6, T, Ma)
        aggmatrix == agg_probs([t \in 1..T |-> Arr(rows[t])])
    IN  [i \in 1..Ma |-> <<aggmatrix.arr[i]>>]

\* a slip: every PMF is extracted from the collapsed matrix
pmf_input_collapsed(key, matrix6, T, Ma) == Collapsed(matrix6, T, Ma)

\* line 483: what the function of a name is applied to
pmf_input(key, matrix6, T, Ma) ==
    IF EndsWithTRT(key) THEN WithTrt(matrix6, T, Ma)
    ELSE Collapsed(matrix6, T, Ma)

\* line 482: whether the PMF of a name is extracted
Wanted(key, disagg_outputs) == disagg_outputs = {} \/ key \in disagg_outputs

RECURSIVE SumFrom(_, _, _)
SumFrom(seq, i, sum) ==
    IF i > Len(seq) THEN sum ELSE SumFrom(seq, i + 1, FAdd(sum, seq[i]))

\* numpy.add.reduce of a non-empty sequence of at most 8 floats: in order
\* below 8, pairwise for 8
numpy_sum(seq) ==
    IF Len(seq) < 8 THEN SumFrom(seq, 2, seq[1])
    ELSE FAdd(FAdd(FAdd(seq[1], seq[2]), FAdd(seq[3], seq[4])),
              FAdd(FAdd(seq[5], seq[6]), FAdd(seq[7], seq[8])))

\* numpy.mean
numpy_mean(seq) == FDiv(numpy_sum(seq), FNorm(BFromInt(Len(seq)), 0))

\* the subsequence of the names that are extracted
RECURSIVE KeptFrom(_, _)
KeptFrom(i, disagg_outputs) ==
    IF i > Len(PmfKeys) THEN <<>>
    ELSE (IF Wanted(PmfKeys[i], disagg_outputs) THEN <<PmfKeys[i]>> ELSE <<>>)
         \o KeptFrom(i + 1, disagg_outputs)

\* the rlz_id of _save: a realization or 'mean'
Rlz(r) == [mean |-> FALSE, id |-> r]

MeanRlz == [mean |-> TRUE, id |-> 0]

\* 'rlz-%d-' % rlz_id, '' for the mean (the TypeError of line 470)
RlzPrefix(rlz_id) ==
    IF rlz_id.mean THEN "" ELSE <<"rlz-0-", "rlz-1-", "rlz-2-">>[rlz_id.id + 1]

\* lines 487-505: the names of the attributes set on the group, 'iml' but
\* for the mean (the KeyError of line 493) and 'poe' when it is checked
attr_names(rlz_id, checked) ==
    {"site_id", "rlzi", "imt", "mag_bin_edges", "dist_bin_edges",
     "lon_bin_edges", "lat_bin_edges", "eps_bin_edges", "trt_bin_edges",
     "location", "poe_agg"}
    \cup (IF rlz_id.mean THEN {} ELSE {"iml"})
    \cup (IF checked THEN {"poe"} ELSE {})

\* a slip: the probabilities of the PMF are added up
poe_agg_sum(pmf) == numpy_sum(pmf)

\* line 485: 1. - numpy.prod(1. - pmf)
poe_agg_of(pmf) == OneMinusProd(pmf)

\* _save('disagg', site_id, rlz_id, poe, imt_str, matrix6), p being
\* self.poe_id[poe] and poe = NaN standing for None: the name of the group,
\* the names and the PMFs of the datasets written, the attributes of the
\* group and the warnings logged, with the matrix the call was given
save(c, disagg_outputs, site_id, rlz_id, p, poe, imt_str, matrix6) ==
    LET T == Len(c.trts)
        Ma == c.bin_edges.mags.bins
        kept == KeptFrom(1, disagg_outputs)
        pmfs == [i \in DOMAIN kept |->
                    pmf_fn(kept[i], pmf_input(kept[i], matrix6, T, Ma))]
        poe_agg == [i \in DOMAIN kept |-> poe_agg_of(pmfs[i])]
        checked == ~IsNaN(poe) /\ poe # FZero /\ site_id \in c.ok_sites
    IN  [name |-> <<RlzPrefix(rlz_id), imt_str, site_id, p>>,
         keys |-> kept,
         pmfs |-> pmfs,
         attrs |-> [site_id |-> site_id, rlzi |-> rlz_id, imt |-> imt_str,
                    poe_agg |-> poe_agg, has_poe |-> checked,
                    names |-> attr_names(rlz_id, checked),
                    poe |-> IF checked THEN poe ELSE NaN],
         matrix6 |-> matrix6,
         warnings |-> IF checked /\ too_different(numpy_mean(poe_agg), poe)
                      THEN {[site_id |-> site_id,
                             poe_agg |-> numpy_mean(poe_agg), poe |-> poe]}
                      ELSE {}]

\* self.ws, the weights of the R realizations
WeightChoices(R) ==
    IF R = 1 THEN {<<FOne>>}
    ELSE {<<Dec(5, 10), Dec(5, 10)>>, <<Dec(3, 10), Dec(7, 10)>>}

\* oq.disagg_outputs
OutputChoices == {{}, {"Mag", "TRT"}, {"Dist"}}

\* mat8[..., p, z]
Mat6(c, mat8, p, z) == [tm \in DOMAIN mat8 |-> mat8[tm].arr[CellOf(c, p, z)]]

\* a slip: every realization weighs the same
normalized_weights_equal(ws, rlzs) ==
    [z \in DOMAIN rlzs |-> FDiv(FOne, FNorm(BFromInt(Len(rlzs)), 0))]

\* lines 449-451: the weights of the realizations rlzs, normalized
normalized_weights(ws, rlzs) ==
    LET weights == [z \in DOMAIN rlzs |-> ws[rlzs[z] + 1]]
    IN  [z \in DOMAIN rlzs |-> FDiv(weights[z], numpy_sum(weights))]

\* numpy.average(a, -1, weights) for one cell: sum(a * w) / sum(w)
numpy_average(a, weights) ==
    FDiv(numpy_sum([z \in DOMAIN a |-> FMul(a[z], weights[z])]),
         numpy_sum(weights))

\* numpy.average(mat7, -1, weights), mat7 being mat8[..., p, :]
MeanMat6(c, mat8, p, weights) ==
    [tm \in DOMAIN mat8 |->
        numpy_average([z \in 1..c.Z |-> mat8[tm].arr[CellOf(c, p, z - 1)]],
                      weights)]

\* matrix.any()
AnyCell(matrix6) == \E tm \in DOMAIN matrix6 : matrix6[tm] # FZero

\* lines 456 and 460: whether a matrix is saved
worth_saving(matrix6) == AnyCell(matrix6)

\* the poe of index p of self.poes_disagg, NaN standing for None
PoeAt(c, p) == IF c.iml_disagg THEN NaN ELSE c.poes[p + 1]

\* self.poe_id[poe] for the poe at position p of self.poes_disagg (lines
\* 313 and 317): the dictionary is built with enumerate, so of the
\* positions of a repeated poe the last one stays
poe_id(c, p) ==
    IF c.iml_disagg THEN 0
    ELSE CHOOSE q \in p..(Len(c.poes) - 1) :
            /\ c.poes[q + 1] = c.poes[p + 1]
            /\ \A k \in (q + 1)..(Len(c.poes) - 1) : c.poes[k + 1] # c.poes[p + 1]

\* save_disagg_results for one (m, s) -> mat8: the results of its _save
\* calls, in the order p, then z, then the mean; of the calls with the same
\* group name the last overwrites the datasets and attributes of the others
saves_of(c, ws, disagg_outputs, s, mat8) ==
    LET rlzs == c.rlzs[s]
        imt == c.imts[1]
        many_rlzs == Len(rlzs) > 1
        weights == normalized_weights(ws, rlzs)
        saved == {pz \in (0..(POf(c) - 1)) \X (0..(c.Z - 1)) :
                     worth_saving(Mat6(c, mat8, pz[1], pz[2]))}
        same(a, b) == /\ rlzs[a[2] + 1] = rlzs[b[2] + 1]
                      /\ poe_id(c, a[1]) = poe_id(c, b[1])
        later(a, b) == a[1] > b[1] \/ (a[1] = b[1] /\ a[2] > b[2])
        means == {q \in 0..(POf(c) - 1) :
                     worth_saving(MeanMat6(c, mat8, q, weights))}
        one == {save(c, disagg_outputs, s, Rlz(rlzs[pz[2] + 1]),
                     poe_id(c, pz[1]), PoeAt(c, pz[1]), imt,
                     Mat6(c, mat8, pz[1], pz[2])) :
                  pz \in {a \in saved :
                            \A b \in saved : same(a, b) => ~later(b, a)}}
        mean == {save(c, disagg_outputs, s, MeanRlz, poe_id(c, p),
                      PoeAt(c, p), imt, MeanMat6(c, mat8, p, weights)) :
                   p \in {a \in means :
                            \A b \in means :
                               poe_id(c, a) = poe_id(c, b) => b <= a}}
    IN  \* the weights are rescaled before the loop over the poes (line 452)
        one \cup (IF many_rlzs /\ weights # <<>> THEN mean ELSE {})

\* post_execute: the tensors of the accumulated results, then everything
\* save_disagg_results saves
post_execute(c, ws, disagg_outputs, results_, keys) ==
    LET T == Len(c.trts)
        Ma == LenEdges(c.bin_edges.mags) - 1
        mat8 == [ms \in DOMAIN results_ |->
                    matrix_of(results_[ms], keys[ms], T, Ma)]
    IN  [mat8 |-> mat8,
         saves |-> UNION {saves_of(c, ws, disagg_outputs, ms[2], mat8[ms]) :
                            ms \in DOMAIN results_}]

\* a slip: the results are saved as soon as none is waiting
reduce_returned_early == queue = {}

\* lines 378-379: smap.reduce returns once every task has finished and every
\* result has been aggregated
reduce_returned ==
    /\ \A tid \in DOMAIN tstate : tstate[tid].at = "done"
    /\ queue = {}

\* post_execute(results), once full_disaggregation has returned them
PostExecute ==
    /\ pc = "submitted"
    /\ reduce_returned
    /\ \E ws \in WeightChoices(calc.R), disagg_outputs \in OutputChoices :
       \E o \in {post_execute(calc, ws, disagg_outputs, acc, keyorder)} :
          /\ rd' = [ws |-> ws, disagg_outputs |-> disagg_outputs, mat8 |-> o.mat8]
          /\ disagg' = [name \in {sv.name : sv \in o.saves} |->
                          CHOOSE sv \in o.saves : sv.name = name]
          /\ warnings' = UNION {sv.warnings : sv \in o.saves}
          /\ datastore' = datastore \cup
                {<<"disagg", sv.name[1], sv.name[2], sv.name[3], sv.name[4],
                   sv.keys[i]>> : <<sv, i>> \in {x \in o.saves \X (1..8) :
                                                    x[2] <= Len(x[1].keys)}}
    /\ pc' = "done"
    /\ UNCHANGED <<N, calc, swmr, err, log, tasks>>
    /\ UNCHANGED <<results, queue, received, acc, args, out>>
    /\ UNCHANGED <<tom, tstate, keyorder>>

NextPost ==
    \/ TaskStart
    \/ TaskSkipsSite
    \/ TaskYields
    \/ Reduce
    \/ TaskFails
    \/ ReduceRaises
    \/ PostExecute

SpecPost == InitPost /\ [][NextPost]_vars

(***************************************************************************)
(* save_disagg_results on its own: the tensor of one (imt, site) is drawn  *)
(* from accumulated values, two tectonic region types by two magnitude     *)
(* bins, one poe and two realizations.                                     *)
(***************************************************************************)
SaveConfig ==
    [n |-> 1, shape |-> PostShapes.two, R |-> 2, cfg |-> RlzGiven(2),
     poes |-> <<Dec(1, 10)>>,
     curves |-> (0 :> <<CurveHi, CurveHi>>),
     store |-> <<Rup(1, 55), Rup(0, 65)>>, concurrent_tasks |-> 1]

\* values a cell of the accumulator may hold: nothing, one result of 0.1, of
\* 0.5 or of the smallest probability
AccVals == {FZero, agg_probs(<<FZero, Dec(1, 10)>>), Dec(5, 10), Pow2Times(1, -53)}

\* the matrices of the first and of the second realization
FirstMats ==
    {(<<0, 0>> :> a @@ <<0, 1>> :> b @@ <<1, 0>> :> c @@ <<1, 1>> :> d) :
        a \in {FZero, Dec(5, 10)}, b \in AccVals, c \in AccVals, d \in AccVals}

SecondMats ==
    {(<<0, 0>> :> a @@ <<0, 1>> :> FZero @@ <<1, 0>> :> FZero @@ <<1, 1>> :> FZero) :
        a \in {FZero, Dec(5, 10)}}

InitSave ==
    /\ pc = "save"
    /\ N = 1
    /\ calc = PostCalc(SaveConfig)
    /\ \E A \in FirstMats, B \in SecondMats, ws \in WeightChoices(2) :
          rd = [ws |-> ws, disagg_outputs |-> {},
                mat8 |-> (<<0, 0>> :> [tm \in DOMAIN A |-> Arr(<<A[tm], B[tm]>>)])]
    /\ datastore = BinDatasets({0})
    /\ swmr = TRUE
    /\ err = NoErr
    /\ log = {}
    /\ tasks = <<>>
    /\ results = <<>>
    /\ queue = {}
    /\ received = {}
    /\ acc = EmptyDict
    /\ args = <<>>
    /\ out = <<>>
    /\ PostFresh

\* save_disagg_results(results) for the drawn tensor
SaveDisaggResults ==
    /\ pc = "save"
    /\ \E saves \in {saves_of(calc, rd.ws, rd.disagg_outputs, 0, rd.mat8[<<0, 0>>])} :
          /\ disagg' = [name \in {sv.name : sv \in saves} |->
                          CHOOSE sv \in saves : sv.name = name]
          /\ warnings' = UNION {sv.warnings : sv \in saves}
          /\ datastore' = datastore \cup
                {<<"disagg", sv.name[1], sv.name[2], sv.name[3], sv.name[4],
                   sv.keys[i]>> : <<sv, i>> \in {x \in saves \X (1..8) :
                                                    x[2] <= Len(x[1].keys)}}
    /\ pc' = "done"
    /\ UNCHANGED <<N, rd, calc, swmr, err, log, tasks>>
    /\ UNCHANGED <<results, queue, received, acc, args, out>>
    /\ UNCHANGED <<tom, tstate, keyorder>>

NextSave == SaveDisaggResults

SpecSave == InitSave /\ [][NextSave]_vars

(***************************************************************************)
(* save_disagg_results with two of three realizations selected, and with   *)
(* the only realization: one site, one key, two poes.                      *)
(***************************************************************************)
MeanConfigs ==
    {[n |-> 1, shape |-> PostShapes.one, R |-> 3, cfg |-> RlzGiven(2),
      poes |-> <<Dec(1, 10), Dec(5, 10)>>,
      curves |-> (0 :> <<CurveHi, CurveHi, CurveHi>>),
      store |-> <<Rup(0, 55)>>, concurrent_tasks |-> 1],
     [n |-> 1, shape |-> PostShapes.one, R |-> 1, cfg |-> RlzGiven(1),
      poes |-> <<Dec(1, 10), Dec(5, 10)>>,
      curves |-> (0 :> <<CurveHi>>),
      store |-> <<Rup(0, 55)>>, concurrent_tasks |-> 1]}

\* self.ws for one and for three realizations
MeanWeights(R) ==
    IF R = 1 THEN {<<FOne>>}
    ELSE {<<Dec(2, 10), Dec(3, 10), Dec(5, 10)>>,
          <<Dec(5, 10), Dec(25, 100), Dec(25, 100)>>}

\* values of a cell of the tensor
MeanVals == {FZero, agg_probs(<<FZero, Dec(1, 10)>>), Dec(5, 10)}

InitMean ==
    /\ pc = "save"
    /\ N = 1
    /\ \E k \in MeanConfigs : \E c \in {PostCalc(k)} :
          /\ calc = c
          /\ \E ws \in MeanWeights(c.R),
                cells \in [1..(Len(c.poes) * c.Z) -> MeanVals] :
                rd = [ws |-> ws, disagg_outputs |-> {},
                      mat8 |-> (<<0, 0>> :> (<<0, 0>> :> Arr(cells)))]
    /\ datastore = BinDatasets({0})
    /\ swmr = TRUE
    /\ err = NoErr
    /\ log = {}
    /\ tasks = <<>>
    /\ results = <<>>
    /\ queue = {}
    /\ received = {}
    /\ acc = EmptyDict
    /\ args = <<>>
    /\ out = <<>>
    /\ PostFresh

SpecMean == InitMean /\ [][NextSave]_vars

(***************************************************************************)
(* save_disagg_results with two poes and two realization positions: all    *)
(* different, the same poe requested twice, the same realization given     *)
(* twice in rlz_index.                                                     *)
(***************************************************************************)
PathConfigs ==
    {[n |-> 1, shape |-> PostShapes.one, R |-> 2, cfg |-> RlzGiven(2),
      poes |-> <<Dec(1, 10), Dec(5, 10)>>,
      curves |-> (0 :> <<CurveHi, CurveHi>>),
      store |-> <<Rup(0, 55)>>, concurrent_tasks |-> 1],
     [n |-> 1, shape |-> PostShapes.one, R |-> 2, cfg |-> RlzGiven(2),
      poes |-> <<Dec(1, 10), Dec(1, 10)>>,
      curves |-> (0 :> <<CurveHi, CurveHi>>),
      store |-> <<Rup(0, 55)>>, concurrent_tasks |-> 1],
     [n |-> 1, shape |-> PostShapes.one, R |-> 2,
      cfg |-> [given |-> TRUE, rlz_index |-> <<0, 0>>, num_rlzs_disagg |-> 1],
      poes |-> <<Dec(1, 10), Dec(5, 10)>>,
      curves |-> (0 :> <<CurveHi, CurveHi>>),
      store |-> <<Rup(0, 55)>>, concurrent_tasks |-> 1]}

\* the tensors of a configuration: the same poe and the same realization
\* give the same intensity and the same ground motion models, hence the
\* same cells
PathCells(c) ==
    {cells \in [1..(Len(c.poes) * c.Z) -> MeanVals] :
        \A p, q \in 0..(Len(c.poes) - 1) : \A z, y \in 0..(c.Z - 1) :
           (c.poes[p + 1] = c.poes[q + 1] /\ c.rlzs[0][z + 1] = c.rlzs[0][y + 1])
              => cells[CellOf(c, p, z)] = cells[CellOf(c, q, y)]}

InitPaths ==
    /\ pc = "save"
    /\ N = 1
    /\ \E k \in PathConfigs : \E c \in {PostCalc(k)} :
          /\ calc = c
          /\ \E cells \in PathCells(c) :
                rd = [ws |-> <<Dec(3, 10), Dec(7, 10)>>, disagg_outputs |-> {},
                      mat8 |-> (<<0, 0>> :> (<<0, 0>> :> Arr(cells)))]
    /\ datastore = BinDatasets({0})
    /\ swmr = TRUE
    /\ err = NoErr
    /\ log = {}
    /\ tasks = <<>>
    /\ results = <<>>
    /\ queue = {}
    /\ received = {}
    /\ acc = EmptyDict
    /\ args = <<>>
    /\ out = <<>>
    /\ PostFresh

SpecPaths == InitPaths /\ [][NextSave]_vars

(***************************************************************************)
(* full_disaggregation from save_bin_edges on, followed by the tasks, the  *)
(* reduction and post_execute: one site, one realization out of one (given *)
(* in rlz_index) or out of two (the closest to the mean, saved in          *)
(* best_rlzs).                                                             *)
(***************************************************************************)
SwmrConfigs ==
    {[n |-> 1, shape |-> PostShapes.one, R |-> 1, cfg |-> RlzGiven(1),
      poes |-> <<Dec(1, 10)>>,
      curves |-> (0 :> <<CurveHi>>),
      store |-> <<Rup(0, 55)>>, concurrent_tasks |-> 1],
     [n |-> 1, shape |-> PostShapes.one, R |-> 2,
      cfg |-> [given |-> FALSE, rlz_index |-> <<>>, num_rlzs_disagg |-> 1],
      poes |-> <<Dec(1, 10)>>,
      curves |-> (0 :> <<CurveHi>>),
      store |-> <<Rup(0, 55)>>, concurrent_tasks |-> 1]}

\* the run after _iml3, line 322
InitSwmr ==
    /\ pc = "iml3"
    /\ \E k \in SwmrConfigs : \E c \in {PostCalc(k)} :
          /\ N = k.n
          /\ calc = [f \in DOMAIN c \ {"allargs"} |-> c[f]]
          /\ rd = [curves |-> k.curves]
          /\ datastore = IF ~k.cfg.given /\ k.R > 1 THEN {<<"best_rlzs">>} ELSE {}
          /\ log = {"super_init", "edges", "full_lt", "curves_read"}
                      \cup (IF ~k.cfg.given /\ k.R > 1 THEN {"pcurves_read"} ELSE {})
    /\ swmr = FALSE
    /\ err = NoErr
    /\ tasks = <<>>
    /\ results = <<>>
    /\ queue = {}
    /\ received = {}
    /\ acc = EmptyDict
    /\ args = <<>>
    /\ out = <<>>
    /\ PostFresh

\* lines 376-377: the Starmap takes the tasks, none of which has started
StarmapSubmit ==
    /\ pc = "swmr"
    /\ tasks' = calc.allargs
    /\ tstate' = [tid \in DOMAIN calc.allargs |-> NewTask]
    /\ pc' = "submitted"
    /\ rd' = EmptyDict
    /\ UNCHANGED <<N, calc, datastore, swmr, err, log>>
    /\ UNCHANGED <<results, queue, received, acc, args, out>>
    /\ UNCHANGED <<tom, keyorder, disagg, warnings>>

NextSwmr ==
    \/ SaveBinEdges
    \/ PrepareTasks
    \/ SwmrOn
    \/ StarmapSubmit
    \/ TaskStart
    \/ TaskSkipsSite
    \/ TaskYields
    \/ Reduce
    \/ TaskFails
    \/ ReduceRaises
    \/ PostExecute

SpecSwmr == InitSwmr /\ [][NextSwmr]_vars

(***************************************************************************)
(* compute_disagg on its own, lines 119-166: the sites of the site         *)
(* collection in order, the distances rupdata['rrup_'][u, sid] of the      *)
(* task's ruptures, and for each site what disagg.disaggregate and         *)
(* disagg.build_disagg_matrix give.                                        *)
(***************************************************************************)
\* cmaker.maximum_distance(cmaker.trt), in km
MaxDist == 200

\* the distances of a rupture to a site: below, at and above the maximum
RrupChoices == {100, 200, 300}

\* what the disaggregation of a site gives: whether bdata.pnes.sum() is not
\* zero, and the matrix
SiteOutcomes ==
    {[pnes |-> FALSE, matrix |-> Arr(<<FZero>>)],
     [pnes |-> TRUE, matrix |-> Arr(<<FZero>>)],
     [pnes |-> TRUE, matrix |-> Arr(<<Dec(1, 10)>>)]}

\* the calls of a task with two ruptures
TaskCalls ==
    {[trti |-> tag[1], magi |-> tag[2], imti |-> 0, n |-> n, rrup |-> rrup,
      outcome |-> outcome] :
        tag \in {<<0, 0>>, <<1, -1>>},
        n \in {2},
        rrup \in [(1..2) \X (0..1) -> RrupChoices],
        outcome \in [0..1 -> SiteOutcomes]}

\* line 132: the ruptures close to the site
ok_ruptures(rrup, sid, maxdist) ==
    {u \in 1..2 : rrup[<<u, sid>>] <= maxdist}

\* a slip: a matrix is yielded whether it has a non-zero cell or not
site_yields_any_matrix(call, sid) ==
    /\ ok_ruptures(call.rrup, sid, MaxDist) # {}
    /\ call.outcome[sid].pnes

\* lines 146-164: whether the task yields a result for the site
site_yields(call, sid) ==
    /\ ok_ruptures(call.rrup, sid, MaxDist) # {}
    /\ call.outcome[sid].pnes
    /\ AnyNonZero(call.outcome[sid].matrix)

\* the sites from sid on for which the task yields a result
yield_sites(call, from) ==
    {sid \in from..(call.n - 1) : site_yields(call, sid)}

\* the generator compute_disagg(...) as created: no line of it has run
InitTask ==
    /\ pc = "call"
    /\ args \in TaskCalls
    /\ N = args.n
    /\ out = <<>>
    /\ results = <<>>
    /\ queue = {}
    /\ received = {}
    /\ acc = EmptyDict
    /\ Fresh
    /\ tom = NoTom
    /\ tstate = <<NewTask>>
    /\ keyorder = EmptyDict
    /\ disagg = EmptyDict
    /\ warnings = {}

\* One resumption of the generator.  The first one runs lines 119-130, which
\* set the class attribute RuptureContext.temporal_occurrence_model; each
\* one runs the loop over the sites from where the generator stands to the
\* next yield of line 165, where it is suspended, or to the end of the loop,
\* where it returns.  out is what the caller has been given so far.
ComputeDisagg ==
    /\ pc \in {"call", "yielded"}
    /\ tom' = IF pc = "call" THEN [set |-> TRUE, by |-> 1] ELSE tom
    /\ \E ys \in {yield_sites(args, tstate[1].sid)} :
       \E upto \in {IF ys = {} THEN args.n ELSE SetMin(ys) + 1} :
       \E seen \in {tstate[1].seen \cup
                      {1 : sid \in {s \in tstate[1].sid..(upto - 1) :
                                      ok_ruptures(args.rrup, s, MaxDist) # {}}}} :
          IF ys = {}
          THEN /\ pc' = "returned"
               /\ out' = out
               /\ tstate' = <<[at |-> "done", sid |-> upto, seen |-> seen]>>
          ELSE /\ pc' = "yielded"
               /\ out' = Append(out,
                     MkResult(<<args.trti, args.magi, args.imti>>, upto - 1,
                              args.outcome[upto - 1].matrix))
               /\ tstate' = <<[at |-> "running", sid |-> upto, seen |-> seen]>>
    /\ UNCHANGED <<results, queue, received, acc, args>>
    /\ UNCHANGED <<keyorder, disagg, warnings>>
    /\ UNCHANGED runVars

NextTask == ComputeDisagg

SpecTask == InitTask /\ [][NextTask]_vars

(***************************************************************************)
(* Properties of the tasks, the reduction and the saved outputs.           *)
(***************************************************************************)
\* C13: a site that is not in ok_sites is excluded from the run: no partial
\* result of that site is aggregated and no dataset is written under disagg/
\* for it.
C13_BadSitesExcluded ==
    /\ \A ms \in DOMAIN acc : ms[2] \in calc.ok_sites
    /\ \A name \in DOMAIN disagg : name[3] \in calc.ok_sites

\* C15: a task is a pure function of its inputs: it writes no state that is
\* visible process-wide (the class attribute stays as it was before any task
\* ran), and the contexts of a task never have an attribute value written by
\* another task.
C15_TasksArePure ==
    /\ tom = NoTom
    /\ \A tid \in DOMAIN tstate : tstate[tid].seen \subseteq {tid}

\* C17: for every (imti, sid) of the accumulated results the assembled tensor
\* has the shape (T, Ma, ...), holds at [trti, magi] the accumulated matrix
\* of the key (trti, magi) when that key is present, and is all zero at every
\* position whose key received no partial result.
C17_TensorAssembled ==
    pc = "done" =>
       \A ms \in DOMAIN acc :
          /\ DOMAIN rd.mat8[ms]
                = (0..(Len(calc.trts) - 1)) \X (0..(calc.bin_edges.mags.bins - 1))
          /\ \A pos \in DOMAIN rd.mat8[ms] :
                IF pos \in DOMAIN acc[ms]
                THEN rd.mat8[ms][pos] = acc[ms][pos]
                ELSE \A i \in DOMAIN rd.mat8[ms][pos].arr :
                        rd.mat8[ms][pos].arr[i] = FZero

\* C18: no PMF that is entirely zero is persisted: every dataset written
\* under disagg/ has at least one non-zero cell.
C18_NoZeroPmfPersisted ==
    \A name \in DOMAIN disagg :
       \A i \in DOMAIN disagg[name].pmfs :
          \E j \in DOMAIN disagg[name].pmfs[i] : disagg[name].pmfs[i][j] # FZero

\* 1 - PRODUCT over the tectonic region types of (1 - p), at the magnitude
\* bin ma of a saved matrix
OverTrt(matrix6, ma) ==
    OneMinusProd([t \in 1..Len(calc.trts) |-> matrix6[<<t - 1, ma>>]])

\* the matrix a saved PMF of the given name has to be extracted from
C19_Source(key, matrix6) ==
    IF key \in {"TRT", "Lon_Lat_TRT"}
    THEN [t \in 1..Len(calc.trts) |->
             [i \in 1..calc.bin_edges.mags.bins |-> matrix6[<<t - 1, i - 1>>]]]
    ELSE [i \in 1..calc.bin_edges.mags.bins |-> <<OverTrt(matrix6, i - 1)>>]

\* C19: in _save every PMF whose name ends in TRT is extracted from the
\* matrix that still has the tectonic-region-type axis and every other PMF
\* from the matrix collapsed over that axis with 1 - PRODUCT(1 - p); the
\* names extracted (and written) are those of disagg_outputs, or all the
\* names when disagg_outputs is empty.
C19_PmfSources ==
    \A name \in DOMAIN disagg :
       LET sv == disagg[name]
           wanted == {k \in {PmfKeys[i] : i \in DOMAIN PmfKeys} :
                        rd.disagg_outputs = {} \/ k \in rd.disagg_outputs}
       IN  /\ {sv.keys[i] : i \in DOMAIN sv.keys} = wanted
           /\ Len(sv.keys) = Cardinality(wanted)
           /\ DOMAIN sv.pmfs = DOMAIN sv.keys
           /\ \A k \in {PmfKeys[i] : i \in DOMAIN PmfKeys} :
                 <<"disagg", name[1], name[2], name[3], name[4], k>> \in datastore
                    <=> k \in wanted
           /\ \A i \in DOMAIN sv.keys :
                 sv.pmfs[i] = pmf_fn(sv.keys[i], C19_Source(sv.keys[i], sv.matrix6))

\* with two tectonic region types the TRT PMF keeps one cell per type and
\* differs from the Mag PMF of the same matrix, and only the two requested
\* names are written
C19_Witness ==
    /\ pc = "done"
    /\ Len(calc.trts) = 2
    /\ rd.disagg_outputs = {"Mag", "TRT"}
    /\ \E name \in DOMAIN disagg :
          /\ disagg[name].keys = <<"Mag", "TRT">>
          /\ Len(disagg[name].pmfs[2]) = 2
          /\ disagg[name].pmfs[1] # disagg[name].pmfs[2]
          /\ \E tm \in DOMAIN disagg[name].matrix6 :
                tm[1] = 1 /\ disagg[name].matrix6[tm] # FZero

\* C20: for every PMF persisted with a requested poe, the probability
\* 1 - PRODUCT(1 - p) recomputed from that PMF is compared with the poe, and
\* whenever the relative difference exceeds 10% a warning is given for the
\* site and the poe; the warning is not fatal: no error is raised and the
\* PMF stays persisted.
C20_PoeAggChecked ==
    \A name \in DOMAIN disagg :
       LET sv == disagg[name]
           poe == PoeAt(calc, name[4])
       IN  ~IsNaN(poe) =>
              \A i \in DOMAIN sv.pmfs :
                 /\ err = NoErr
                 /\ <<"disagg", name[1], name[2], name[3], name[4], sv.keys[i]>>
                       \in datastore
                 /\ FCmp(FDist(FOne, FDiv(OneMinusProd(sv.pmfs[i]), poe)),
                         Dec(1, 10)) > 0
                       => \E w \in warnings : w.site_id = name[3] /\ w.poe = poe

\* PRODUCT(1 - p) in exact arithmetic over the cells S of a saved matrix
RECURSIVE XProdCells(_, _)
XProdCells(matrix6, S) ==
    IF S = {} THEN FOne
    ELSE LET tm == CHOOSE tm \in S : TRUE
             rest == XProdCells(matrix6, S \ {tm})
         IN  IF rest = FZero THEN FZero
             ELSE IF matrix6[tm] = FZero THEN rest
             ELSE XMul(XDist(FOne, matrix6[tm]), rest)

\* 1 - PRODUCT(1 - p) in exact arithmetic over all the cells
XAggCells(matrix6) ==
    LET prod == XProdCells(matrix6, DOMAIN matrix6)
    IN  IF prod = FOne THEN FZero ELSE XDist(FOne, prod)

\* the cells of a saved matrix that are not zero
NonZeroCells(matrix6) == {tm \in DOMAIN matrix6 : matrix6[tm] # FZero}

(***************************************************************************)
(* C21 as stated: the aggregate probability recomputed from any extracted  *)
(* PMF of a record equals 1 - PRODUCT(1 - p) over all cells of the         *)
(* record's matrix, so that all poe_agg entries of a record are equal, and *)
(* for a matrix with a single non-zero cell it equals that cell's value    *)
(* exactly.  The PMFs are computed in floating point, each along its own   *)
(* axes: the products are rounded, the entries of one record may differ in *)
(* the last bit, and a single cell 0.15 of a mean matrix gives             *)
(* 1 - (1 - 0.15) = 0.15000000000000002.                                   *)
(***************************************************************************)
C21_PoeAggExact ==
    \A name \in DOMAIN disagg :
       LET sv == disagg[name]
           nz == NonZeroCells(sv.matrix6)
       IN  \A i \in DOMAIN sv.attrs.poe_agg :
              /\ sv.attrs.poe_agg[i] = XAggCells(sv.matrix6)
              /\ Cardinality(nz) = 1
                    => \A tm \in nz : sv.attrs.poe_agg[i] = sv.matrix6[tm]

(***************************************************************************)
(* C21 amended: the aggregate probability recomputed from any extracted    *)
(* PMF of a record equals 1 - PRODUCT(1 - p) over the n cells of the       *)
(* record's matrix up to the accumulated rounding, at most 2n * 2^-52 (the *)
(* poe_agg entries of one record agree within that tolerance); for a       *)
(* matrix with a single non-zero cell it equals that cell's value exactly  *)
(* in the record of a realization, and within 2^-54 in the record of the   *)
(* mean.                                                                   *)
(***************************************************************************)
C21_PoeAggUpToRounding ==
    \A name \in DOMAIN disagg :
       LET sv == disagg[name]
           nz == NonZeroCells(sv.matrix6)
           n == Cardinality(DOMAIN sv.matrix6)
       IN  \A i \in DOMAIN sv.attrs.poe_agg :
              /\ FLe(XDist(sv.attrs.poe_agg[i], XAggCells(sv.matrix6)), Tol(2 * n))
              /\ Cardinality(nz) = 1
                    => \A tm \in nz :
                          IF sv.attrs.rlzi.mean
                          THEN FLe(XDist(sv.attrs.poe_agg[i], sv.matrix6[tm]),
                                   Pow2Times(1, -54))
                          ELSE sv.attrs.poe_agg[i] = sv.matrix6[tm]

\* a realization's record with three non-zero cells whose poe_agg entries are
\* not all equal
C21_Witness ==
    /\ pc = "done"
    /\ \E name \in DOMAIN disagg :
          /\ ~disagg[name].attrs.rlzi.mean
          /\ Cardinality(NonZeroCells(disagg[name].matrix6)) = 3
          /\ \E i, j \in DOMAIN disagg[name].attrs.poe_agg :
                disagg[name].attrs.poe_agg[i] # disagg[name].attrs.poe_agg[j]

\* the datasets written under disagg/
DisaggDatasets == {d \in datastore : d[1] = "disagg"}

\* C22: PMFs are persisted only after the reduction over all submitted tasks
\* has completed (every task has finished and every result it yielded has
\* been aggregated); once a task has failed the run can only abort, and no
\* dataset under disagg/ is written from the incomplete accumulator.
C22_NoPartialPersistence ==
    /\ DisaggDatasets # {} =>
          /\ pc = "done"
          /\ \A tid \in DOMAIN tstate : tstate[tid].at = "done"
          /\ received = DOMAIN results
    /\ (pc = "failed" \/ \E tid \in DOMAIN tstate : tstate[tid].at = "failed") =>
          /\ DisaggDatasets = {}
          /\ disagg = EmptyDict
          /\ pc # "done"

\* a task has failed after results of other tasks were aggregated: the run
\* has aborted with a non-empty accumulator and nothing under disagg/
C22_Witness ==
    /\ pc = "failed"
    /\ err.type = "TaskError"
    /\ acc # EmptyDict
    /\ \E tid \in DOMAIN tstate : tstate[tid].at = "done"
    /\ DisaggDatasets = {}

\* C23: every persisted PMF record carries its full provenance as
\* attributes: the site id, the realization index or 'mean', the requested
\* poe, the intensity measure type, the six bin edges, the location and the
\* recomputed aggregate probabilities, the records of the mean and of sites
\* not in ok_sites included.
C23_FullProvenance ==
    \A name \in DOMAIN disagg :
       LET a == disagg[name].attrs
       IN  /\ {"site_id", "rlzi", "imt", "mag_bin_edges", "dist_bin_edges",
               "lon_bin_edges", "lat_bin_edges", "eps_bin_edges",
               "trt_bin_edges", "location", "poe_agg"} \subseteq a.names
           /\ a.site_id = name[3]
           /\ a.imt = name[2]
           /\ RlzPrefix(a.rlzi) = name[1]
           /\ Len(a.poe_agg) = Len(disagg[name].keys)
           /\ ~calc.iml_disagg => "poe" \in a.names /\ a.poe = calc.poes[name[4] + 1]

\* C24: compute_disagg emits sparse results only: a site with no rupture
\* within the maximum distance (rrup <= maxdist, the boundary included)
\* emits nothing, every emitted partial result contains exactly one site,
\* whose matrix has at least one non-zero cell, and is tagged with the trti,
\* magi and imti the task was called with.
C24_SparseResults ==
       /\ \A sid \in 0..(args.n - 1) :
             (\A u \in 1..2 : args.rrup[<<u, sid>>] > MaxDist)
                => \A i \in DOMAIN out : sid \notin DOMAIN out[i].sites
       /\ \A i \in DOMAIN out :
             /\ Cardinality(DOMAIN out[i].sites) = 1
             /\ \A sid \in DOMAIN out[i].sites :
                   \E c \in DOMAIN out[i].sites[sid].arr :
                      out[i].sites[sid].arr[c] # FZero
             /\ out[i].trti = args.trti
             /\ out[i].magi = args.magi
             /\ out[i].imti = args.imti

\* site 0 has its only close rupture exactly at the maximum distance and is
\* emitted; site 1 has no rupture close enough and is not, although its
\* matrix would not be zero
C24_Witness ==
    /\ pc = "returned"
    /\ args.rrup[<<1, 0>>] = MaxDist /\ args.rrup[<<2, 0>>] > MaxDist
    /\ \A u \in 1..2 : args.rrup[<<u, 1>>] > MaxDist
    /\ AnyNonZero(args.outcome[1].matrix)
    /\ Len(out) = 1
    /\ DOMAIN out[1].sites = {0}

\* the number of places of the rupture index u in the batches of the tasks
\* of the type imti
TimesSent(allargs, imti, u) ==
    Cardinality({<<j, p>> \in (DOMAIN allargs) \X (1..Len(rd.store)) :
                    /\ allargs[j].imti = imti
                    /\ p \in DOMAIN allargs[j].idxs
                    /\ allargs[j].idxs[p] = u})

\* C25: every task submitted by full_disaggregation receives a batch of
\* rupture indices that all belong to one (group index, magnitude bin) key,
\* and for each intensity measure type the batches of all the tasks contain
\* every rupture index of the store exactly once.
C25_BatchesPartitionStore ==
    /\ pc = "prepared" =>
          /\ \A j \in DOMAIN calc.allargs :
                LET t == calc.allargs[j]
                IN  /\ t.idxs # <<>>
                    /\ \A p \in DOMAIN t.idxs :
                          /\ t.idxs[p] \in 0..(Len(rd.store) - 1)
                          /\ rd.store[t.idxs[p] + 1].gidx = t.trti
                          /\ mag_index(calc.bin_edges.mags,
                                       rd.store[t.idxs[p] + 1].mag) = t.magi
          /\ \A imti \in 0..(Len(calc.imts) - 1) :
                \A u \in 0..(Len(rd.store) - 1) :
                   TimesSent(calc.allargs, imti, u) = 1
    /\ pc = "submitted" => tasks = calc.allargs

\* two ruptures of one key are split over two tasks of one rupture each
C25_Witness ==
    /\ pc = "prepared"
    /\ Len(rd.store) = 2
    /\ \E j, k \in DOMAIN calc.allargs :
          /\ j # k
          /\ calc.allargs[j].imti = calc.allargs[k].imti
          /\ calc.allargs[j].trti = calc.allargs[k].trti
          /\ calc.allargs[j].magi = calc.allargs[k].magi
          /\ calc.allargs[j].idxs = <<0>>
          /\ calc.allargs[k].idxs = <<1>>

\* the cells of an accumulated matrix are probabilities
CellsInUnit(matrix) ==
    \A c \in DOMAIN matrix.arr :
       FLe(FZero, matrix.arr[c]) /\ FLe(matrix.arr[c], FOne)

\* C26: the accumulated result grows monotonically during the reduction: no
\* (imti, sid) key and no (trti, magi) key is ever removed by agg_result,
\* and, the partial values being in [0, 1], every accumulated cell is not
\* smaller after a call of agg_result than before it and stays within [0, 1].
C26_AccGrows ==
    [][/\ \A ms \in DOMAIN acc :
             /\ ms \in DOMAIN acc'
             /\ \A tm \in DOMAIN acc[ms] :
                   /\ tm \in DOMAIN acc'[ms]
                   /\ \A c \in DOMAIN acc[ms][tm].arr :
                         FLe(acc[ms][tm].arr[c], acc'[ms][tm].arr[c])
       /\ \A ms \in DOMAIN acc' :
             \A tm \in DOMAIN acc'[ms] : CellsInUnit(acc'[ms][tm])]_vars

\* two results of one task tag have been aggregated into one matrix, a cell
\* of which is larger than in either of them, beside a matrix of another tag
C26_Witness ==
    /\ pc = "reduce"
    /\ \E t1, t2, t3 \in received :
          /\ t1 # t2
          /\ results[t1].trti = results[t2].trti
          /\ results[t1].magi = results[t2].magi
          /\ results[t1].imti = results[t2].imti
          /\ DOMAIN results[t1].sites = DOMAIN results[t2].sites
          /\ results[t3].trti # results[t1].trti
          /\ \A sid \in DOMAIN results[t1].sites :
                LET ms == <<results[t1].imti, sid>>
                    tm == <<results[t1].trti, results[t1].magi>>
                IN  /\ DOMAIN acc[ms] =
                          {tm, <<results[t3].trti, results[t3].magi>>}
                    /\ \E c \in DOMAIN acc[ms][tm].arr :
                          /\ ~FLe(acc[ms][tm].arr[c], results[t1].sites[sid].arr[c])
                          /\ ~FLe(acc[ms][tm].arr[c], results[t2].sites[sid].arr[c])

\* the cell of the tensor of site 0 for the key tm, the poe p and the
\* realization position z
Mat8Cell(tm, p, z) == rd.mat8[<<0, 0>>][tm].arr[CellOf(calc, p, z)]

\* the weight of the realization at position z, as given
SelectedWeight(z) == rd.ws[calc.rlzs[0][z + 1] + 1]

\* the sum over the positions from z on of weight * cell, the cell being 1
\* when unit is set, in exact arithmetic
RECURSIVE XWeighted(_, _, _, _)
XWeighted(tm, p, z, unit) ==
    IF z = calc.Z THEN FZero
    ELSE XAdd(XMul(SelectedWeight(z), IF unit THEN FOne ELSE Mat8Cell(tm, p, z)),
              XWeighted(tm, p, z + 1, unit))

MeanName(p) == <<"", calc.imts[1], 0, p>>

RlzName(p, z) == <<RlzPrefix(Rlz(calc.rlzs[0][z + 1])), calc.imts[1], 0, p>>

\* C27: save_disagg_results persists a mean record for (intensity measure
\* type, site, poe) if and only if more than one realization is selected and
\* the weighted mean matrix is not all zero; the mean is that of the
\* selected realizations with their weights rescaled to sum to 1 (up to the
\* rounding of the division); the records of the realizations with a matrix
\* that is not all zero are persisted as well, with their matrix; with one
\* realization no mean record is written.
C27_MeanRecords ==
    pc = "done" =>
       \A p \in 0..(Len(calc.poes) - 1) :
          LET keys == DOMAIN rd.mat8[<<0, 0>>]
          IN  /\ MeanName(p) \in DOMAIN disagg
                    <=> /\ calc.Z > 1
                        /\ \E tm \in keys : XWeighted(tm, p, 0, FALSE) # FZero
              /\ MeanName(p) \in DOMAIN disagg =>
                    /\ disagg[MeanName(p)].attrs.rlzi = MeanRlz
                    /\ \A tm \in keys :
                          FLe(XDist(XMul(disagg[MeanName(p)].matrix6[tm],
                                         XWeighted(tm, p, 0, TRUE)),
                                    XWeighted(tm, p, 0, FALSE)),
                              XMul(Tol(2), XWeighted(tm, p, 0, TRUE)))
              /\ \A z \in 0..(calc.Z - 1) :
                    /\ RlzName(p, z) \in DOMAIN disagg
                          <=> \E tm \in keys : Mat8Cell(tm, p, z) # FZero
                    /\ RlzName(p, z) \in DOMAIN disagg =>
                          \A tm \in keys :
                             disagg[RlzName(p, z)].matrix6[tm] = Mat8Cell(tm, p, z)
              /\ calc.Z = 1 => MeanName(p) \notin DOMAIN disagg

\* two of three realizations with the weights 0.2 and 0.3: for the first poe
\* only the first has a matrix that is not zero, its record and the mean
\* (0.4 of it) are saved; for the second poe nothing is
C27_Witness ==
    /\ pc = "done"
    /\ calc.Z = 2 /\ calc.R = 3
    /\ rd.ws = <<Dec(2, 10), Dec(3, 10), Dec(5, 10)>>
    /\ Mat8Cell(<<0, 0>>, 0, 0) = Dec(5, 10)
    /\ DOMAIN disagg = {MeanName(0), RlzName(0, 0)}
    /\ FLe(XDist(disagg[MeanName(0)].matrix6[<<0, 0>>], Dec(2, 10)), Tol(1))

\* the (poe position, realization position) pairs of site 0 with a matrix
\* that is not all zero, and the poe positions with such a mean
SavedPositions ==
    {pz \in (0..(Len(calc.poes) - 1)) \X (0..(calc.Z - 1)) :
        \E tm \in DOMAIN rd.mat8[<<0, 0>>] : Mat8Cell(tm, pz[1], pz[2]) # FZero}

MeanPositions ==
    {p \in 0..(Len(calc.poes) - 1) :
        /\ calc.Z > 1
        /\ \E tm \in DOMAIN rd.mat8[<<0, 0>>] : XWeighted(tm, p, 0, FALSE) # FZero}

\* C28: within one run no two persisted PMF records share a dataset path:
\* the records of distinct (site, intensity measure type, poe position p,
\* realization position z or mean) are in distinct disagg/ groups, the poe-k
\* component of a record's path being the position of its poe in the
\* requested list, so that no record overwrites another.
C28_DistinctPaths ==
    pc = "done" =>
       /\ \A a \in SavedPositions :
             /\ RlzName(a[1], a[2]) \in DOMAIN disagg
             /\ \A b \in SavedPositions :
                   a # b => RlzName(a[1], a[2]) # RlzName(b[1], b[2])
       /\ \A p \in MeanPositions : MeanName(p) \in DOMAIN disagg
       /\ Cardinality(DOMAIN disagg) =
             Cardinality(SavedPositions) + Cardinality(MeanPositions)

\* some but not all of the selected realizations have a curve at the site
PartlyMissing(sid) ==
    /\ \E z \in 1..calc.Z : rd.curves[sid][z].present
    /\ \E z \in 1..calc.Z : ~rd.curves[sid][z].present

\* C29: check_poes_disagg completes without raising for a site where some,
\* but not all, selected realizations have a missing hazard curve: the
\* missing curves are skipped, the site is classified from the curves that
\* exist, and the run goes on to build NaN intensities for the missing
\* (site, realization) pairs.
C29_MissingCurvesSkipped ==
    (CurvesChecked /\ \E sid \in Sids : PartlyMissing(sid)) =>
       /\ err.type # "TypeError"
       /\ (\E sid \in Sids : ~PoeAboveCurve(sid)) =>
             /\ pc = "iml3"
             /\ calc.ok_sites = {sid \in Sids : ~PoeAboveCurve(sid)}
             /\ \A sid \in Sids, z \in 1..calc.Z :
                   ~rd.curves[sid][z].present =>
                      \A m \in DOMAIN calc.imts, p \in DOMAIN calc.poes :
                         IsNaN(calc.iml3[m][<<sid, p - 1, z - 1>>])

\* C30: single-writer/multiple-reader ordering: all the bin edges (and
\* best_rlzs, when it is written) are persisted before swmr_on is called,
\* swmr_on is called before any task is submitted or starts, no step of a
\* task writes to the store, and the main process writes nothing to the
\* store between swmr_on and the end of the reduction.
C30_SwmrOrdering ==
    [][/\ (swmr' /\ ~swmr) =>
             /\ BinDatasets(Sids) \subseteq datastore
             /\ datastore' = datastore
             /\ tasks = <<>> /\ tstate = <<>>
       /\ (tasks' # tasks \/ tstate' # tstate) => swmr
       /\ tstate' # tstate => datastore' = datastore
       /\ (swmr /\ datastore' # datastore) =>
             /\ pc = "submitted" /\ tasks # <<>>
             /\ \A tid \in DOMAIN tstate : tstate[tid].at = "done"
             /\ queue = {}
             /\ <<"best_rlzs">> \in datastore' => <<"best_rlzs">> \in datastore]_vars

\* best_rlzs and the bin edges are in the store, swmr is on, two tasks were
\* submitted, one is done and its result aggregated while the other runs,
\* and nothing else has been written
C30_Witness ==
    /\ pc = "submitted"
    /\ swmr
    /\ datastore = {<<"best_rlzs">>} \cup BinDatasets(Sids)
    /\ Len(tasks) = 2
    /\ \E t1, t2 \in DOMAIN tstate :
          tstate[t1].at = "done" /\ tstate[t2].at = "running"
    /\ received # {}

====
